---- MODULE Spec2Model ----
(***************************************************************************)
(* ChoomLang: the protocol-line codec (choomlang/dsl.py), the registry     *)
(* (choomlang/registry.py) and the relay engine (choomlang/relay.py).      *)
(*                                                                         *)
(* Text is modelled as a sequence of one-character strings, so that the    *)
(* lexer, the parser and the serializer are computed character by          *)
(* character as the code computes them.                                    *)
(***************************************************************************)
EXTENDS Integers, Sequences, FiniteSets, TLC

(***************************************************************************)
(* Characters                                                              *)
(***************************************************************************)

\* The printable characters the model uses, in code point order
\* (Python compares strings by code point).
AsciiOrder ==
    << "\t", "\n", " ", "\"", "#", ",", "-", ".", "/",
       "0", "1", "2", "3", "4", "5", "6", "7", "8", "9", ";", "=", "@",
       "A", "B", "C", "D", "E", "F", "G", "H", "I", "J", "K", "L", "M",
       "N", "O", "P", "Q", "R", "S", "T", "U", "V", "W", "X", "Y", "Z",
       "[", "\\", "]", "_",
       "a", "b", "c", "d", "e", "f", "g", "h", "i", "j", "k", "l", "m",
       "n", "o", "p", "q", "r", "s", "t", "u", "v", "w", "x", "y", "z" >>

Ord(ch) == CHOOSE i \in 1..Len(AsciiOrder) : AsciiOrder[i] = ch

AllChars == { AsciiOrder[i] : i \in 1..Len(AsciiOrder) }

DigitSeq == << "0", "1", "2", "3", "4", "5", "6", "7", "8", "9" >>

Digits == { DigitSeq[i] : i \in 1..10 }

UpperLetters == { AsciiOrder[i] : i \in Ord("A")..Ord("Z") }

LowerLetters == { AsciiOrder[i] : i \in Ord("a")..Ord("z") }

\* str.isspace
IsSpace(ch) == ch \in { " ", "\t", "\n" }

\* str.lower, one character
LowerChar(ch) ==
    IF ch \in UpperLetters THEN AsciiOrder[Ord(ch) - Ord("A") + Ord("a")] ELSE ch

LowerStr(s) == [ i \in 1..Len(s) |-> LowerChar(s[i]) ]

DigitVal(ch) == (CHOOSE i \in 1..10 : DigitSeq[i] = ch) - 1

AllDigits(s) == Len(s) >= 1 /\ \A i \in 1..Len(s) : s[i] \in Digits

\* int() of a string of decimal digits
RECURSIVE DigitsToNat(_)
DigitsToNat(s) ==
    IF s = << >> THEN 0
    ELSE 10 * DigitsToNat(SubSeq(s, 1, Len(s) - 1)) + DigitVal(s[Len(s)])

\* str() of a natural number
RECURSIVE NatToStr(_)
NatToStr(n) ==
    IF n < 10 THEN << DigitSeq[n + 1] >>
    ELSE NatToStr(n \div 10) \o << DigitSeq[(n % 10) + 1] >>

\* str() of an integer
IntToStr(n) == IF n < 0 THEN << "-" >> \o NatToStr(0 - n) ELSE NatToStr(n)

\* str.strip
RECURSIVE LStrip(_)
LStrip(s) == IF s # << >> /\ IsSpace(Head(s)) THEN LStrip(Tail(s)) ELSE s

RECURSIVE RStrip(_)
RStrip(s) ==
    IF s # << >> /\ IsSpace(s[Len(s)]) THEN RStrip(SubSeq(s, 1, Len(s) - 1)) ELSE s

Strip(s) == RStrip(LStrip(s))

\* s < t in Python's string order
RECURSIVE StrLess(_, _)
StrLess(s, t) ==
    IF t = << >> THEN FALSE
    ELSE IF s = << >> THEN TRUE
    ELSE IF Head(s) = Head(t) THEN StrLess(Tail(s), Tail(t))
    ELSE Ord(Head(s)) < Ord(Head(t))

\* " ".join(parts)
RECURSIVE JoinSpace(_)
JoinSpace(parts) ==
    IF parts = << >> THEN << >>
    ELSE IF Len(parts) = 1 THEN parts[1]
    ELSE parts[1] \o << " " >> \o JoinSpace(Tail(parts))

\* Results: a returned value, or a raised DSLParseError with its message kind
\* and the text the message quotes.
Ok(v) == [ ok |-> TRUE, val |-> v ]

Err(kind, arg) == [ ok |-> FALSE, err |-> [ kind |-> kind, arg |-> arg ] ]

(***************************************************************************)
(* Parameter values: str, int, float and bool, each keeping its type.      *)
(* A float is its sign, its integer part and its fraction digits without   *)
(* trailing zeros, which is what float() keeps of a short decimal literal. *)
(***************************************************************************)

StrV(s) == [ t |-> "str", v |-> s ]

IntV(n) == [ t |-> "int", v |-> n ]

BoolV(b) == [ t |-> "bool", v |-> b ]

FloatV(neg, ip, fr) == [ t |-> "float", v |-> << neg, ip, fr >> ]

\* JSON null and JSON arrays/objects, which a decoded reply can carry
NullV == [ t |-> "null", v |-> 0 ]

(***************************************************************************)
(* dsl.py                                                                  *)
(***************************************************************************)

ALIAS_TO_CANON ==
    << << <<"j","a","c","k">>, <<"g","e","n">> >>,
       << <<"s","c","a","n">>, <<"c","l","a","s","s","i","f","y">> >>,
       << <<"g","h","o","s","t">>, <<"s","u","m","m","a","r","i","z","e">> >>,
       << <<"f","o","r","g","e">>, <<"p","l","a","n">> >>,
       << <<"p","i","n","g">>, <<"h","e","a","l","t","h","c","h","e","c","k">> >>,
       << <<"c","a","l","l">>, <<"t","o","o","l","c","a","l","l">> >>,
       << <<"r","e","l","a","y">>, <<"f","o","r","w","a","r","d">> >> >>

\* canonicalize_op with the alias table ignored
canonicalize_op_no_alias(op) == op

canonicalize_op(op) ==
    IF \E i \in 1..Len(ALIAS_TO_CANON) : ALIAS_TO_CANON[i][1] = op
    THEN ALIAS_TO_CANON[CHOOSE i \in 1..Len(ALIAS_TO_CANON) : ALIAS_TO_CANON[i][1] = op][2]
    ELSE op

\* The character loop of _tokenize: i is the position, cur the token being
\* built, inq whether the scan is inside quotes, esc whether the previous
\* character was an escaping backslash.
\* The characters that end a run of ordinary characters outside quotes
TokStops == { " ", "\t", "\n", "\"" }

\* The position after the run of ordinary characters that starts at i
RunEnd(s, i) ==
    IF SubSeq(s, i, Len(s)) \in Seq(AllChars \ TokStops) THEN Len(s) + 1
    ELSE CHOOSE j \in i..Len(s) : s[j] \in TokStops /\ \A k \in i..(j - 1) : s[k] \notin TokStops

\* The loop with every quote inside a quoted region closing it, escaped or not
RECURSIVE TokLoopNoEscape(_, _, _, _, _, _)
TokLoopNoEscape(s, i, toks, cur, inq, esc) ==
    IF i > Len(s) THEN [ toks |-> toks, cur |-> cur, inq |-> inq ]
    ELSE IF inq
    THEN TokLoopNoEscape(s, i + 1, toks, Append(cur, s[i]), s[i] # "\"", FALSE)
    ELSE IF IsSpace(s[i])
    THEN TokLoopNoEscape(s, i + 1, IF cur # << >> THEN Append(toks, cur) ELSE toks,
                         << >>, FALSE, FALSE)
    ELSE TokLoopNoEscape(s, i + 1, toks, Append(cur, s[i]), s[i] = "\"", FALSE)

\* Outside quotes a run of ordinary characters is appended to cur in one step:
\* the loop does on each of them what it does on the first.
RECURSIVE TokLoop(_, _, _, _, _, _)
TokLoop(s, i, toks, cur, inq, esc) ==
    IF i > Len(s) THEN [ toks |-> toks, cur |-> cur, inq |-> inq ]
    ELSE LET ch == s[i] IN
         IF inq
         THEN TokLoop(s, i + 1, toks, Append(cur, ch),
                      IF esc THEN TRUE ELSE IF ch = "\\" THEN TRUE ELSE ch # "\"",
                      IF esc THEN FALSE ELSE ch = "\\")
         ELSE IF IsSpace(ch)
         THEN TokLoop(s, i + 1, IF cur # << >> THEN Append(toks, cur) ELSE toks,
                      << >>, FALSE, esc)
         ELSE IF ch = "\""
         THEN TokLoop(s, i + 1, toks, Append(cur, ch), TRUE, esc)
         ELSE TokLoop(s, RunEnd(s, i), toks, cur \o SubSeq(s, i, RunEnd(s, i) - 1), FALSE, esc)

tokenize(line) ==
    LET s == Strip(line) IN
    IF s = << >> THEN Err("invalid header: empty input", << >>)
    ELSE LET r == TokLoop(s, 1, << >>, << >>, FALSE, FALSE) IN
         IF r.inq THEN Err("unterminated quote", << >>)
         ELSE Ok(IF r.cur # << >> THEN Append(r.toks, r.cur) ELSE r.toks)

\* Every trailing punctuation token removed
RECURSIVE strip_all_trailing_punctuation(_)
strip_all_trailing_punctuation(tokens) ==
    IF tokens # << >> /\ tokens[Len(tokens)] \in { <<".">>, <<",">>, <<";">> }
    THEN strip_all_trailing_punctuation(SubSeq(tokens, 1, Len(tokens) - 1))
    ELSE tokens

strip_trailing_punctuation_token(tokens) ==
    IF tokens # << >> /\ tokens[Len(tokens)] \in { <<".">>, <<",">>, <<";">> }
    THEN SubSeq(tokens, 1, Len(tokens) - 1)
    ELSE tokens

IsNameStart(ch) == ch \in UpperLetters \cup LowerLetters \cup { "_" }

IsNameChar(ch) == IsNameStart(ch) \/ ch \in Digits \/ ch = "-"

\* Length of the longest prefix of name characters
RECURSIVE NamePrefixLen(_, _)
NamePrefixLen(s, i) ==
    IF i <= Len(s) /\ IsNameChar(s[i]) THEN NamePrefixLen(s, i + 1) ELSE i - 1

\* HEADER_RE: a name, then optionally [ content ] with a non-empty content
\* holding no ']', up to the end of the token.
HeaderMatch(token) ==
    LET n == NamePrefixLen(token, 1) IN
    IF token = << >> \/ ~IsNameStart(token[1]) THEN [ m |-> FALSE ]
    ELSE IF n = Len(token)
    THEN [ m |-> TRUE, target |-> token, has |-> FALSE, count |-> << >> ]
    ELSE IF /\ token[n + 1] = "["
            /\ token[Len(token)] = "]"
            /\ Len(token) >= n + 3
            /\ \A i \in (n + 2)..(Len(token) - 1) : token[i] # "]"
    THEN [ m |-> TRUE, target |-> SubSeq(token, 1, n), has |-> TRUE,
           count |-> SubSeq(token, n + 2, Len(token) - 1) ]
    ELSE [ m |-> FALSE ]

parse_target_count(token) ==
    LET h == HeaderMatch(token) IN
    IF ~h.m THEN Err("invalid header: invalid target/count segment", token)
    ELSE IF ~h.has THEN Ok([ target |-> h.target, count |-> 1 ])
    ELSE IF ~AllDigits(h.count) THEN Err("bad count: expected positive integer", h.count)
    ELSE IF DigitsToNat(h.count) < 1 THEN Err("bad count: expected >= 1", h.count)
    ELSE Ok([ target |-> h.target, count |-> DigitsToNat(h.count) ])

RECURSIVE unescape_quoted(_)
unescape_quoted(text) ==
    IF text = << >> THEN << >>
    ELSE IF text[1] = "\\" /\ Len(text) >= 2 /\ text[2] \in { "\"", "\\" }
    THEN << text[2] >> \o unescape_quoted(SubSeq(text, 3, Len(text)))
    ELSE << text[1] >> \o unescape_quoted(Tail(text))

\* -?[0-9]+
IsIntLiteral(raw) ==
    IF raw # << >> /\ raw[1] = "-" THEN AllDigits(Tail(raw)) ELSE AllDigits(raw)

\* Position of the first "." (0 if none)
DotPos(s) ==
    IF \E i \in 1..Len(s) : s[i] = "."
    THEN CHOOSE i \in 1..Len(s) : s[i] = "." /\ \A j \in 1..(i - 1) : s[j] # "."
    ELSE 0

\* -?[0-9]+\.[0-9]+
IsFloatLiteral(raw) ==
    LET u == IF raw # << >> /\ raw[1] = "-" THEN Tail(raw) ELSE raw
        d == DotPos(u)
    IN  d > 0 /\ AllDigits(SubSeq(u, 1, d - 1)) /\ AllDigits(SubSeq(u, d + 1, Len(u)))

RECURSIVE StripTrailingZeros(_)
StripTrailingZeros(s) ==
    IF s # << >> /\ s[Len(s)] = "0" THEN StripTrailingZeros(SubSeq(s, 1, Len(s) - 1)) ELSE s

RECURSIVE StripLeadingZeros(_)
StripLeadingZeros(s) ==
    IF s # << >> /\ s[1] = "0" THEN StripLeadingZeros(Tail(s)) ELSE s

\* float() of a literal matching the float pattern
ParseFloat(raw) ==
    LET neg == raw[1] = "-"
        u == IF neg THEN Tail(raw) ELSE raw
        d == DotPos(u)
    IN  FloatV(neg, DigitsToNat(SubSeq(u, 1, d - 1)),
               StripTrailingZeros(SubSeq(u, d + 1, Len(u))))

\* str() of a float: positional notation, or exponent notation when the
\* value is below 1e-4 (the literals of the model stay below 1e16 and
\* within 15 significant digits).
FloatToStr(f) ==
    LET neg == f[1]
        ip == f[2]
        fr == f[3]
        sig == StripLeadingZeros(fr)
        lz == Len(fr) - Len(sig)
        body == IF ip = 0 /\ sig # << >> /\ lz >= 4
                THEN << sig[1] >>
                     \o (IF Len(sig) > 1 THEN << "." >> \o Tail(sig) ELSE << >>)
                     \o << "e", "-" >>
                     \o (IF lz + 1 < 10 THEN << "0" >> ELSE << >>) \o NatToStr(lz + 1)
                ELSE NatToStr(ip) \o << "." >> \o (IF fr = << >> THEN << "0" >> ELSE fr)
    IN  (IF neg THEN << "-" >> ELSE << >>) \o body

\* The value unquoted first and then read as a bare value
coerce_value_unquote_first(raw) ==
    LET bare == IF Len(raw) >= 2 /\ raw[1] = "\"" /\ raw[Len(raw)] = "\""
                THEN unescape_quoted(SubSeq(raw, 2, Len(raw) - 1))
                ELSE raw
    IN  IF LowerStr(bare) = << "t", "r", "u", "e" >> THEN BoolV(TRUE)
        ELSE IF LowerStr(bare) = << "f", "a", "l", "s", "e" >> THEN BoolV(FALSE)
        ELSE IF IsIntLiteral(bare)
        THEN IntV(IF bare[1] = "-" THEN 0 - DigitsToNat(Tail(bare)) ELSE DigitsToNat(bare))
        ELSE IF IsFloatLiteral(bare) THEN ParseFloat(bare)
        ELSE StrV(bare)

coerce_value(raw) ==
    IF Len(raw) >= 2 /\ raw[1] = "\"" /\ raw[Len(raw)] = "\""
    THEN StrV(unescape_quoted(SubSeq(raw, 2, Len(raw) - 1)))
    ELSE IF LowerStr(raw) = << "t", "r", "u", "e" >> THEN BoolV(TRUE)
    ELSE IF LowerStr(raw) = << "f", "a", "l", "s", "e" >> THEN BoolV(FALSE)
    ELSE IF IsIntLiteral(raw)
    THEN IntV(IF raw[1] = "-" THEN 0 - DigitsToNat(Tail(raw)) ELSE DigitsToNat(raw))
    ELSE IF IsFloatLiteral(raw) THEN ParseFloat(raw)
    ELSE StrV(raw)

\* The characters that force quoting: ch.isspace() or ch in {'"', '='}
QuotedChars == { " ", "\t", "\n", "\"", "=" }

\* The text is empty or some character of it forces quoting, that is, not
\* every character of it is one of the other characters
needs_quotes(text) ==
    \/ text = << >>
    \/ text \notin Seq(AllChars \ QuotedChars)

\* The text with only its double quotes escaped
RECURSIVE EscapeStrQuotesOnly(_)
EscapeStrQuotesOnly(text) ==
    IF text = << >> THEN << >>
    ELSE (IF Head(text) = "\"" THEN << "\\", "\"" >> ELSE << Head(text) >>)
         \o EscapeStrQuotesOnly(Tail(text))

\* text.replace("\\", "\\\\").replace('"', '\\"'), halving the text so that
\* a long text is escaped in few nested steps
RECURSIVE EscapeStr(_)
EscapeStr(text) ==
    IF text = << >> THEN << >>
    ELSE IF Len(text) = 1
    THEN (IF text[1] \in { "\\", "\"" } THEN << "\\", text[1] >> ELSE text)
    ELSE EscapeStr(SubSeq(text, 1, Len(text) \div 2))
         \o EscapeStr(SubSeq(text, (Len(text) \div 2) + 1, Len(text)))

\* str(value) for a value that is not bool, int or float
PyStr(value) ==
    IF value.t = "str" THEN value.v
    ELSE IF value.t = "null" THEN << "N", "o", "n", "e" >>
    ELSE << >>

serialize_value(value) ==
    IF value.t = "bool"
    THEN (IF value.v THEN << "t", "r", "u", "e" >> ELSE << "f", "a", "l", "s", "e" >>)
    ELSE IF value.t = "int" THEN IntToStr(value.v)
    ELSE IF value.t = "float" THEN FloatToStr(value.v)
    ELSE LET text == PyStr(value) IN
         IF needs_quotes(text) THEN << "\"" >> \o EscapeStr(text) \o << "\"" >> ELSE text

\* Position of the first "=" (0 if none)
EqPos(s) ==
    IF \E i \in 1..Len(s) : s[i] = "="
    THEN CHOOSE i \in 1..Len(s) : s[i] = "=" /\ \A j \in 1..(i - 1) : s[j] # "="
    ELSE 0

\* params[key] = value on a map held as a function
PutParam(params, key, value) ==
    [ k \in DOMAIN params \cup { key } |-> IF k = key THEN value ELSE params[k] ]

EmptyParams == [ k \in {} |-> NullV ]

\* The loop of parse_dsl over tokens[2:]
RECURSIVE ParseParams(_, _, _)
ParseParams(tokens, i, params) ==
    IF i > Len(tokens) THEN Ok(params)
    ELSE LET token == tokens[i]
             e == EqPos(token)
             key == SubSeq(token, 1, e - 1)
             raw_value == SubSeq(token, e + 1, Len(token))
         IN  IF e = 0 THEN Err("malformed kv: missing '=' in token", token)
             ELSE IF key = << >> THEN Err("malformed kv: empty key in token", token)
             ELSE IF raw_value = << >> THEN Err("malformed kv: empty value for key", key)
             ELSE ParseParams(tokens, i + 1, PutParam(params, key, coerce_value(raw_value)))

parse_dsl(line, lenient) ==
    LET tk == tokenize(line) IN
    IF ~tk.ok THEN tk
    ELSE LET tokens == IF lenient THEN strip_trailing_punctuation_token(tk.val) ELSE tk.val IN
         IF Len(tokens) < 2 THEN Err("invalid header: expected '<op> <target>[count] ...'", << >>)
         ELSE LET tc == parse_target_count(tokens[2]) IN
              IF ~tc.ok THEN tc
              ELSE LET pp == ParseParams(tokens, 3, EmptyParams) IN
                   IF ~pp.ok THEN pp
                   ELSE Ok([ op |-> canonicalize_op(tokens[1]),
                             target |-> tc.val.target,
                             count |-> tc.val.count,
                             params |-> pp.val ])

\* The keys in descending string order
RECURSIVE SortedKeysDescending(_)
SortedKeysDescending(keys) ==
    IF keys = {} THEN << >>
    ELSE LET m == CHOOSE k \in keys : \A o \in keys \ { k } : StrLess(o, k)
         IN  << m >> \o SortedKeysDescending(keys \ { m })

\* sorted(params): the keys in ascending string order
RECURSIVE SortedKeys(_)
SortedKeys(keys) ==
    IF keys = {} THEN << >>
    ELSE LET m == CHOOSE k \in keys : \A o \in keys \ { k } : StrLess(k, o)
         IN  << m >> \o SortedKeys(keys \ { m })

\* serialize_dsl of a record whose op and target are strings, whose count is
\* an integer and whose params is a map
serialize_dsl(command) ==
    IF command.count < 1 THEN Err("bad count: expected >= 1", IntToStr(command.count))
    ELSE LET keys == SortedKeys(DOMAIN command.params)
             head == IF command.count = 1 THEN command.target
                     ELSE command.target \o << "[" >> \o IntToStr(command.count) \o << "]" >>
             kv == [ i \in 1..Len(keys) |->
                       keys[i] \o << "=" >> \o serialize_value(command.params[keys[i]]) ]
         IN  Ok(JoinSpace(<< canonicalize_op(command.op), head >> \o kv))

format_dsl(line, lenient) ==
    LET p == parse_dsl(line, lenient) IN
    IF ~p.ok THEN p ELSE serialize_dsl(p.val)

(***************************************************************************)
(* registry.py                                                             *)
(***************************************************************************)

S_gen == << "g", "e", "n" >>

S_plan == << "p", "l", "a", "n" >>

S_txt == << "t", "x", "t" >>

S_script == << "s", "c", "r", "i", "p", "t" >>

CANONICAL_OPS ==
    { S_gen, <<"c","l","a","s","s","i","f","y">>, <<"s","u","m","m","a","r","i","z","e">>,
      S_plan, <<"h","e","a","l","t","h","c","h","e","c","k">>,
      <<"t","o","o","l","c","a","l","l">>, <<"f","o","r","w","a","r","d">> }

CANONICAL_TARGETS ==
    { <<"i","m","g">>, S_txt, <<"a","u","d">>, <<"v","i","d">>, <<"v","e","c">>,
      <<"t","o","o","l">>, S_script }

OP_ALIASES == ALIAS_TO_CANON

normalize_op(op) ==
    IF \E i \in 1..Len(OP_ALIASES) : OP_ALIASES[i][1] = op
    THEN OP_ALIASES[CHOOSE i \in 1..Len(OP_ALIASES) : OP_ALIASES[i][1] = op][2]
    ELSE op

\* A decoded JSON object is a function from its keys to typed values; a
\* params object is [t |-> "dict", v |-> map].
DictV(m) == [ t |-> "dict", v |-> m ]

\* dict.get(key, default)
Get(obj, key, default) == IF key \in DOMAIN obj THEN obj[key] ELSE default

\* validate_payload: "ok", or the field the ValueError names
validate_payload(payload, strict_ops, strict_targets) ==
    IF payload.op.t # "str" THEN "op"
    ELSE IF payload.target.t # "str" THEN "target"
    ELSE IF ~(payload.count.t \in { "int", "bool" }) THEN "count"
    ELSE IF payload.count.t = "int" /\ payload.count.v < 1 THEN "count"
    ELSE IF payload.count.t = "bool" /\ ~payload.count.v THEN "count"
    ELSE IF payload.params.t # "dict" THEN "params"
    ELSE IF strict_ops /\ normalize_op(payload.op.v) \notin CANONICAL_OPS THEN "op"
    ELSE IF strict_targets /\ payload.target.v \notin CANONICAL_TARGETS THEN "target"
    ELSE "ok"

(***************************************************************************)
(* protocol.py: script text                                                *)
(***************************************************************************)

\* str.splitlines on "\n"
RECURSIVE SplitLines(_, _)
SplitLines(text, cur) ==
    LET breaks == { i \in 1..Len(text) : text[i] = "\n" } IN
    IF breaks = {} THEN (IF cur \o text = << >> THEN << >> ELSE << cur \o text >>)
    ELSE LET j == CHOOSE i \in breaks : \A k \in breaks : i <= k IN
         << cur \o SubSeq(text, 1, j - 1) >> \o SplitLines(SubSeq(text, j + 1, Len(text)), << >>)

\* The scan of strip_inline_comment: position of the first unquoted "#"
\* (0 if none)
RECURSIVE CommentPos(_, _, _, _)
CommentPos(line, i, inq, esc) ==
    IF i > Len(line) THEN 0
    ELSE LET ch == line[i] IN
         IF inq
         THEN CommentPos(line, i + 1,
                         IF esc THEN TRUE ELSE IF ch = "\\" THEN TRUE ELSE ch # "\"",
                         IF esc THEN FALSE ELSE ch = "\\")
         ELSE IF ch = "\"" THEN CommentPos(line, i + 1, TRUE, esc)
         ELSE IF ch = "#" THEN i
         ELSE CommentPos(line, i + 1, FALSE, esc)

strip_inline_comment(line) ==
    LET c == CommentPos(line, 1, FALSE, FALSE) IN
    IF c > 0 THEN RStrip(SubSeq(line, 1, c - 1)) ELSE RStrip(line)

\* iter_script_lines: the (line_number, dsl_text) rows
RECURSIVE IterRows(_, _)
IterRows(lines, n) ==
    IF n > Len(lines) THEN << >>
    ELSE LET raw == lines[n]
             stripped == Strip(raw)
             without_comment == Strip(strip_inline_comment(raw))
         IN  IF stripped = << >> \/ stripped[1] = "#" \/ without_comment = << >>
             THEN IterRows(lines, n + 1)
             ELSE << [ line_number |-> n, text |-> without_comment ] >> \o IterRows(lines, n + 1)

iter_script_lines(text) == IterRows(SplitLines(text, << >>), 1)

\* Only the first row is parsed
parse_script_text_first_row_only(text) ==
    LET rows == iter_script_lines(text) IN
    IF rows = << >> THEN Ok(<< >>)
    ELSE IF parse_dsl(rows[1].text, FALSE).ok
    THEN Ok(<< parse_dsl(rows[1].text, FALSE) >>)
    ELSE Err(parse_dsl(rows[1].text, FALSE).err.kind, NatToStr(rows[1].line_number))

\* parse_script_text: the first row that fails to parse raises
parse_script_text(text) ==
    LET rows == iter_script_lines(text)
        bad == { i \in 1..Len(rows) : ~parse_dsl(rows[i].text, FALSE).ok }
    IN  IF bad = {} THEN Ok([ i \in 1..Len(rows) |-> parse_dsl(rows[i].text, FALSE).val ])
        ELSE LET f == CHOOSE i \in bad : \A j \in bad : i <= j IN
             Err(parse_dsl(rows[f].text, FALSE).err.kind, NatToStr(rows[f].line_number))

(***************************************************************************)
(* relay.py: data                                                          *)
(***************************************************************************)

MAX_MESSAGE_CHARS == 4000

\* Bounds of the model: the largest turns argument tried, the number of
\* iterations of the speaker loop followed, the number of calls of the
\* decision function followed, the length of the parameter values given to
\* the codec
MaxTurns == 1

MaxSteps == 2

MaxQueries == 2

MaxValLen == 3

EmptyObj == [ k \in {} |-> NullV ]

EmptyRecord == [ op |-> << >>, target |-> << >>, count |-> 1, params |-> EmptyParams ]

\* A text the engine sends or receives: a text that is not JSON, such as a
\* protocol line (fmt "text"), the JSON text of an object (fmt "json", obj the
\* object json.loads returns), the JSON text of another value (fmt
\* "jsonval"), or no text (fmt "none").
NoText == [ fmt |-> "none", text |-> << >>, obj |-> EmptyObj ]

PlainText(line) == [ fmt |-> "text", text |-> line, obj |-> EmptyObj ]

\* The JSON text of a value that is not an object
JsonScalarText == [ fmt |-> "jsonval", text |-> << >>, obj |-> EmptyObj ]

JsonText(o) == [ fmt |-> "json", text |-> << >>, obj |-> o ]

\* The JSON object of a structured record
RecordObj(rec) ==
    [ k \in { "op", "target", "count", "params" } |->
        IF k = "op" THEN StrV(rec.op)
        ELSE IF k = "target" THEN StrV(rec.target)
        ELSE IF k = "count" THEN IntV(rec.count)
        ELSE DictV(rec.params) ]

\* json.dumps(record, sort_keys=True)
JsonDumps(rec) == JsonText(RecordObj(rec))

\* The characters json.dumps writes as a two-character escape
JsonEscaped == { "\"", "\\", "\n", "\t" }

\* Length of json.dumps of a string: the quotes, the characters, and one
\* more for each character written as a two-character escape
JsonStrLen(str) ==
    2 + Len(str)
      + (IF str \in Seq(AllChars \ JsonEscaped) THEN 0
         ELSE Cardinality({ i \in DOMAIN str : str[i] \in JsonEscaped }))

JsonScalarLen(value) ==
    IF value.t = "str" THEN JsonStrLen(value.v)
    ELSE IF value.t = "int" THEN Len(IntToStr(value.v))
    ELSE IF value.t = "float" THEN Len(FloatToStr(value.v))
    ELSE IF value.t = "bool" THEN (IF value.v THEN 4 ELSE 5)
    ELSE 4

RECURSIVE JsonItemsLen(_, _)
JsonItemsLen(params, keys) ==
    IF keys = {} THEN 0
    ELSE LET k == CHOOSE x \in keys : TRUE IN
         JsonStrLen(k) + 2 + JsonScalarLen(params[k])
         + (IF keys = { k } THEN 0 ELSE 2) + JsonItemsLen(params, keys \ { k })

\* Length of json.dumps(record, sort_keys=True):
\* {"count": 1, "op": "gen", "params": {}, "target": "txt"}
JsonLen(rec) ==
    2 + (7 + 2 + Len(IntToStr(rec.count))) + 2 + (4 + 2 + JsonStrLen(rec.op)) + 2
      + (8 + 2 + 2 + JsonItemsLen(rec.params, DOMAIN rec.params)) + 2
      + (8 + 2 + JsonStrLen(rec.target))

\* Errors.  type is "RelayError" or "DSLParseError"; msg is the message as
\* the sequence of its parts; http_status 0, stage "None" and reason "None"
\* and raw NoText stand for Python's None.
NoError ==
    [ type |-> "None", msg |-> << >>, http_status |-> 0, raw |-> NoText,
      reason |-> "None", stage |-> "None" ]

RelayError(msg, http_status, raw, reason, stage) ==
    [ type |-> "RelayError", msg |-> msg, http_status |-> http_status, raw |-> raw,
      reason |-> reason, stage |-> stage ]

DSLParseError(err) ==
    [ type |-> "DSLParseError", msg |-> << err.kind >>, http_status |-> 0, raw |-> NoText,
      reason |-> "None", stage |-> "None" ]

\* Prompts.  A prompt is kept as the parts the code formats into it.
NoParseErr == [ kind |-> "", arg |-> << >> ]

StructuredPrompt(add_contract, incoming_json) ==
    [ kind |-> "structured", contract |-> add_contract, incoming_dsl |-> << >>,
      incoming_json |-> incoming_json, error |-> NoParseErr, previous |-> << >> ]

DslPrompt(incoming_dsl, incoming_json) ==
    [ kind |-> "dsl", contract |-> FALSE, incoming_dsl |-> incoming_dsl,
      incoming_json |-> incoming_json, error |-> NoParseErr, previous |-> << >> ]

\* build_guard_prompt(error=str(exc), previous=raw)
build_guard_prompt(error, previous) ==
    [ kind |-> "guard", contract |-> FALSE, incoming_dsl |-> << >>,
      incoming_json |-> EmptyRecord, error |-> error, previous |-> previous ]

\* len() of the prompt of _structured_model_step: the fixed text (74
\* characters), the contract (53), "\nIncoming JSON: " (16) and the JSON text
StructuredPromptLen(add_contract, incoming_json) ==
    74 + (IF add_contract THEN 53 ELSE 0) + 16 + JsonLen(incoming_json)

\* len() of the prompt of _dsl_model_step: the fixed text up to
\* "Incoming DSL: " (57), the line, "\nIncoming JSON: " (16) and the JSON text
DslPromptLen(incoming_dsl, incoming_json) ==
    57 + Len(incoming_dsl) + 16 + JsonLen(incoming_json)

\* The length guard of a prompt of n characters
prompt_too_large_never(n) == FALSE

prompt_too_large(n) == n > MAX_MESSAGE_CHARS

\* _clip_model_output: the stripped text, or the size error
clip_model_output(raw) ==
    LET t == IF raw.fmt = "json" THEN raw ELSE [ raw EXCEPT !.text = Strip(raw.text) ] IN
    IF Len(t.text) > MAX_MESSAGE_CHARS
    THEN [ ok |-> FALSE, raw |-> NoText,
           err |-> RelayError(<< "model message exceeded maximum size" >>, 0, NoText, "None", "None") ]
    ELSE [ ok |-> TRUE, raw |-> t, err |-> NoError ]

\* dsl_to_json_with_options
dsl_to_json_with_options(message, lenient) == parse_dsl(message, lenient)

\* sub in s, for two texts
Contains(s, sub) ==
    \/ sub = << >>
    \/ \E i \in 1..(Len(s) - Len(sub) + 1) : s[i] = sub[1] /\ SubSeq(s, i, i + Len(sub) - 1) = sub

\* repr(value) of a decoded JSON value, for strings without a quote, a
\* backslash or a control character
Repr(value) ==
    IF value.t = "str" THEN << "'" >> \o value.v \o << "'" >>
    ELSE IF value.t = "int" THEN IntToStr(value.v)
    ELSE IF value.t = "bool"
    THEN (IF value.v THEN << "T", "r", "u", "e" >> ELSE << "F", "a", "l", "s", "e" >>)
    ELSE IF value.t = "float" THEN FloatToStr(value.v)
    ELSE IF value.t = "null" THEN << "N", "o", "n", "e" >>
    ELSE << "{", "}" >>

\* The text of a field name
FieldText(field) ==
    IF field = "op" THEN << "o", "p" >>
    ELSE IF field = "target" THEN << "t", "a", "r", "g", "e", "t" >>
    ELSE IF field = "count" THEN << "c", "o", "u", "n", "t" >>
    ELSE << "p", "a", "r", "a", "m", "s" >>

\* str(exc) of the ValueError validate_payload raises for the field
ValueErrorText(payload, field) ==
    << "i", "n", "v", "a", "l", "i", "d", " ", "f", "i", "e", "l", "d", " " >> \o FieldText(field) \o << "=" >> \o Repr(payload[field])
      \o (IF field = "count" THEN << ":", " ", "e", "x", "p", "e", "c", "t", "e", "d", " ", "i", "n", "t", "e", "g", "e", "r", " ", ">", "=", " ", "1" >>
          ELSE IF field = "params" THEN << ":", " ", "e", "x", "p", "e", "c", "t", "e", "d", " ", "o", "b", "j", "e", "c", "t", "/", "d", "i", "c", "t" >>
          ELSE IF payload[field].t # "str" THEN << ":", " ", "e", "x", "p", "e", "c", "t", "e", "d", " ", "s", "t", "r", "i", "n", "g" >>
          ELSE IF field = "op" THEN << ":", " ", "u", "n", "k", "n", "o", "w", "n", " ", "c", "a", "n", "o", "n", "i", "c", "a", "l", " ", "o", "p" >>
          ELSE << ":", " ", "u", "n", "k", "n", "o", "w", "n", " ", "c", "a", "n", "o", "n", "i", "c", "a", "l", " ", "t", "a", "r", "g", "e", "t" >>)

\* "field <name>" in message
NamesField(message, field) ==
    \E sub \in { << "f", "i", "e", "l", "d", " " >> \o FieldText(field) } : Contains(message, sub)

\* ",".join(invalid_fields) if invalid_fields else None
RECURSIVE JoinFields(_)
JoinFields(fields) ==
    IF fields = << >> THEN "None"
    ELSE IF Len(fields) = 1 THEN fields[1]
    ELSE fields[1] \o "," \o JoinFields(Tail(fields))

\* invalid_fields: the field names found in the message, in the order op,
\* target, count, params
invalid_fields(message) ==
    SelectSeq(<< "op", "target", "count", "params" >>, LAMBDA f : NamesField(message, f))

\* sorted(CANONICAL_OPS) and sorted(CANONICAL_TARGETS)
sorted_canonical_ops == SortedKeys(CANONICAL_OPS)

sorted_canonical_targets == SortedKeys(CANONICAL_TARGETS)

\* The suggested fix: which advice, and the names it enumerates
suggested_fix(message, normalized) ==
    IF NamesField(message, "op")
    THEN IF normalized.op.t # "str"
         THEN [ advice |-> "use --allow-unknown-op/--allow-unknown-target or try --no-schema", names |-> << >> ]
         ELSE IF normalize_op(normalized.op.v) \in CANONICAL_OPS /\ normalize_op(normalized.op.v) # normalized.op.v
         THEN [ advice |-> "alias detected: try canonical op", names |-> << normalize_op(normalized.op.v) >> ]
         ELSE [ advice |-> "use canonical ops", names |-> sorted_canonical_ops ]
    ELSE IF NamesField(message, "target")
    THEN [ advice |-> "use canonical targets", names |-> sorted_canonical_targets ]
    ELSE [ advice |-> "use --allow-unknown-op/--allow-unknown-target or try --no-schema", names |-> << >> ]

NoDetail == [ message |-> << >>, suggestion |-> [ advice |-> "", names |-> << >> ] ]

\* parse_structured_reply
StructFail(msg, raw, reason, stage) ==
    [ ok |-> FALSE, payload |-> EmptyRecord, dsl |-> << >>,
      err |-> RelayError(msg, 0, raw, reason, stage), detail |-> NoDetail ]

parse_structured_reply(raw, strict_ops, strict_targets) ==
    IF raw.fmt = "jsonval"
    THEN StructFail(<< "structured relay response must be a JSON object" >>, NoText, "None", "None")
    ELSE IF raw.fmt # "json"
    THEN StructFail(<< "structured relay response was not valid JSON" >>, NoText, "None", "None")
    ELSE LET normalized == [ op |-> Get(raw.obj, "op", NullV),
                             target |-> Get(raw.obj, "target", NullV),
                             count |-> Get(raw.obj, "count", IntV(1)),
                             params |-> Get(raw.obj, "params", DictV(EmptyParams)) ]
             v == validate_payload(normalized, strict_ops, strict_targets)
         IN  IF v # "ok"
             THEN CHOOSE failed \in
                    { [ StructFail(<< "structured relay validation failed", v >>, raw,
                                   JoinFields(invalid_fields(message)), "structured-validation")
                        EXCEPT !.detail = [ message |-> message,
                                            suggestion |-> suggested_fix(message, normalized) ] ] :
                      message \in { ValueErrorText(normalized, v) } } : TRUE
             ELSE LET rec == [ op |-> normalize_op(normalized.op.v),
                               target |-> normalized.target.v,
                               count |-> IF normalized.count.t = "bool" THEN 1
                                         ELSE normalized.count.v,
                               params |-> normalized.params.v ]
                      is_script == rec.op = S_gen /\ rec.target = S_script
                      has_text == << "t", "e", "x", "t" >> \in DOMAIN rec.params
                      script_text == rec.params[<< "t", "e", "x", "t" >>]
                  IN  IF is_script /\ ~(has_text /\ script_text.t = "str")
                      THEN StructFail(<< "structured relay validation failed",
                                         "params.text is required string" >>,
                                      raw, "params", "structured-validation")
                      ELSE IF is_script /\ << "p", "r", "o", "m", "p", "t" >> \in DOMAIN rec.params
                      THEN StructFail(<< "structured relay validation failed",
                                         "params.prompt is not allowed" >>,
                                      raw, "params", "structured-validation")
                      ELSE IF is_script /\ ~parse_script_text(script_text.v).ok
                      THEN StructFail(<< "structured relay validation failed",
                                         "params.text must be a valid multi-line ChoomLang script" >>,
                                      raw, "params", "structured-validation")
                      ELSE [ ok |-> TRUE, payload |-> rec, dsl |-> serialize_dsl(rec).val,
                             err |-> NoError, detail |-> NoDetail ]

decide_structured_recovery_always_retry(schema_failed, json_failed, strict, fallback_enabled) ==
    IF ~schema_failed THEN "schema-ok"
    ELSE IF ~json_failed THEN "retry-json"
    ELSE IF strict THEN "fail-strict"
    ELSE IF ~fallback_enabled THEN "fail-no-fallback"
    ELSE "fallback-dsl"

decide_structured_recovery_strict_first(schema_failed, json_failed, strict, fallback_enabled) ==
    IF ~schema_failed THEN "schema-ok"
    ELSE IF json_failed /\ strict THEN "fail-strict"
    ELSE IF ~fallback_enabled THEN "fail-no-fallback"
    ELSE IF ~json_failed THEN "retry-json"
    ELSE "fallback-dsl"

decide_structured_recovery(schema_failed, json_failed, strict, fallback_enabled) ==
    IF ~schema_failed THEN "schema-ok"
    ELSE IF ~fallback_enabled THEN "fail-no-fallback"
    ELSE IF ~json_failed THEN "retry-json"
    ELSE IF strict THEN "fail-strict"
    ELSE "fallback-dsl"

\* _format_structured_failure
format_structured_failure(stage, error) ==
    RelayError(<< "structured relay failed in mode", stage >> \o error.msg,
               error.http_status, error.raw, "None", stage)

build_transcript_record(rid, side, mode, request_mode, raw, parsed, dsl, retry, http_status, fallback_reason, raw_json_text) ==
    [ request_id |-> rid, side |-> side, mode |-> mode, stage |-> request_mode,
      request_mode |-> request_mode, http_status |-> http_status, raw |-> raw,
      parsed |-> parsed, dsl |-> dsl, error |-> NoError, retry |-> retry,
      fallback_reason |-> fallback_reason, invalid_fields |-> << >>,
      raw_json_text |-> raw_json_text ]

RECURSIVE SumRetries(_)
SumRetries(recs) ==
    IF recs = << >> THEN 0 ELSE Head(recs).retry + SumRetries(Tail(recs))

\* summarize_transcript (the latency figures are left out)
summarize_transcript(recs) ==
    [ total_turns |-> Len(recs),
      retries |-> SumRetries(recs),
      fallbacks_by_stage |->
        [ st \in { recs[i].stage : i \in { j \in 1..Len(recs) :
                                             recs[j].fallback_reason # << >> } } |->
            Cardinality({ i \in 1..Len(recs) :
                            recs[i].stage = st /\ recs[i].fallback_reason # << >> }) ] ]

\* _new_history
new_history(system_prompt) ==
    IF system_prompt = "" THEN << >>
    ELSE << [ role |-> "system", content |-> PlainText(<< system_prompt >>) ] >>

\* _append_exchange with the assistant message lost
append_exchange_user_only(history, incoming, outgoing) ==
    history \o << [ role |-> "user", content |-> incoming ] >>

\* _append_exchange
append_exchange(history, incoming, outgoing) ==
    history \o << [ role |-> "user", content |-> incoming ],
                  [ role |-> "assistant", content |-> outgoing ] >>

\* append_transcript writing at the head of the file
append_transcript_at_head(entries, has_path, record) ==
    IF ~has_path THEN entries ELSE << record >> \o entries

\* append_transcript: nothing is written when no log path is given
append_transcript(entries, has_path, record) ==
    IF ~has_path THEN entries ELSE Append(entries, record)

(***************************************************************************)
(* The endpoint: what client.chat returns or raises                        *)
(***************************************************************************)

ChatReply(raw) == [ kind |-> "reply", raw |-> raw, status |-> 200, err |-> NoError ]

ChatError(e) == [ kind |-> "error", raw |-> NoText, status |-> 0, err |-> e ]

ErrTimeout == RelayError(<< "Ollama request timed out" >>, 0, NoText, "timeout", "None")

\* {"op":"gen","target":"txt"}
ReplyGenTxt == JsonText([ k \in { "op", "target" } |->
                            IF k = "op" THEN StrV(S_gen) ELSE StrV(S_txt) ])

\* {"op":"forge","target":"txt","count":1,"params":{"step":"next"}}
ReplyForgeTxt ==
    JsonText([ k \in { "op", "target", "count", "params" } |->
                 IF k = "op" THEN StrV(<< "f", "o", "r", "g", "e" >>)
                 ELSE IF k = "target" THEN StrV(S_txt)
                 ELSE IF k = "count" THEN IntV(1)
                 ELSE DictV([ x \in { << "s", "t", "e", "p" >> } |-> StrV(<< "n", "e", "x", "t" >>) ]) ])

\* {"op":"success","target":"txt"}
ReplyUnknownOp ==
    JsonText([ k \in { "op", "target" } |->
                 IF k = "op" THEN StrV(<< "s", "u", "c", "c", "e", "s", "s" >>) ELSE StrV(S_txt) ])

\* {"op":"gen","target":"txt","params":{"note":"xx...x"}}: a reply within the
\* size limit whose note is half the limit long
LongNote == [ i \in 1..(MAX_MESSAGE_CHARS \div 2) |-> "x" ]

ReplyLong ==
    JsonText([ k \in { "op", "target", "params" } |->
                 IF k = "op" THEN StrV(S_gen)
                 ELSE IF k = "target" THEN StrV(S_txt)
                 ELSE DictV([ x \in { << "n", "o", "t", "e" >> } |-> StrV(LongNote) ]) ])

LineGenTxt == << "g", "e", "n", " ", "t", "x", "t" >>

\* gen txt note=xx...x: a line whose note is a hundred characters short of
\* the size limit
LineHuge ==
    << "g", "e", "n", " ", "t", "x", "t", " ", "n", "o", "t", "e", "=" >>
      \o [ i \in 1..(MAX_MESSAGE_CHARS - 100) |-> "x" ]

LineForgeTxt == << "f", "o", "r", "g", "e", " ", "t", "x", "t", " ", "s", "t", "e", "p", "=", "n", "e", "x", "t" >>

LineOops == << "o", "o", "p", "s" >>

\* gen zap: a line that parses, with a target outside the registry
LineGenZap == << "g", "e", "n", " ", "z", "a", "p" >>

StructOutcomes ==
    { ChatReply(ReplyGenTxt), ChatReply(ReplyForgeTxt), ChatReply(ReplyUnknownOp),
      ChatReply(ReplyLong), ChatError(ErrTimeout) }

DslOutcomes ==
    { ChatReply(PlainText(LineForgeTxt)), ChatReply(PlainText(LineGenZap)),
      ChatReply(PlainText(LineOops)), ChatError(ErrTimeout) }

\* _chat_once
chat_once(out) ==
    IF out.kind = "error"
    THEN [ ok |-> FALSE, raw |-> NoText, status |-> 0, err |-> out.err ]
    ELSE LET c == clip_model_output(out.raw) IN
         [ ok |-> c.ok, raw |-> c.raw, status |-> IF c.ok THEN out.status ELSE 0, err |-> c.err ]

(***************************************************************************)
(* The transport client: OllamaClient.chat                                 *)
(***************************************************************************)

\* What urlopen does with one request: a response body that is a JSON
\* object (with or without the text the caller reads from it), a body that
\* is not JSON, an HTTP error with its detail, a timeout
HttpOk(has_text, text) == [ kind |-> "ok", code |-> 200, has_text |-> has_text, text |-> text ]

HttpNotJson == [ kind |-> "not-json", code |-> 200, has_text |-> FALSE, text |-> << >> ]

HttpError(code, detail) == [ kind |-> "http", code |-> code, has_text |-> FALSE, text |-> detail ]

HttpTimeout == [ kind |-> "timeout", code |-> 0, has_text |-> FALSE, text |-> << >> ]

S_api_chat == << "/", "a", "p", "i", "/", "c", "h", "a", "t" >>

S_api_generate == << "/", "a", "p", "i", "/", "g", "e", "n", "e", "r", "a", "t", "e" >>

S_api_tags == << "/", "a", "p", "i", "/", "t", "a", "g", "s" >>

S_http_404 == << "H", "T", "T", "P", " ", "4", "0", "4" >>

\* _post_json: the decoded object and the status, or the RelayError raised
post_json(path, out) ==
    IF out.kind = "http"
    THEN [ ok |-> FALSE, status |-> 0, has_text |-> FALSE, text |-> << >>,
           err |-> RelayError(<< "O", "l", "l", "a", "m", "a", " ", "r", "e", "q", "u", "e", "s", "t", " ", "f", "a", "i", "l", "e", "d", " ", "(" >> \o path \o << ")", ":", " ", "H", "T", "T", "P", " " >>
                                \o IntToStr(out.code) \o << " " >> \o out.text,
                              out.code, PlainText(out.text), "http-error", "None") ]
    ELSE IF out.kind = "timeout"
    THEN [ ok |-> FALSE, status |-> 0, has_text |-> FALSE, text |-> << >>,
           err |-> RelayError(<< "O", "l", "l", "a", "m", "a", " ", "r", "e", "q", "u", "e", "s", "t", " ", "t", "i", "m", "e", "d", " ", "o", "u", "t", " ", "a", "f", "t", "e", "r", " ", "1", "8", "0", "s" >>, 0, NoText, "timeout", "None") ]
    ELSE IF out.kind = "not-json"
    THEN [ ok |-> FALSE, status |-> 0, has_text |-> FALSE, text |-> << >>,
           err |-> RelayError(<< "O", "l", "l", "a", "m", "a", " ", "r", "e", "t", "u", "r", "n", "e", "d", " ", "n", "o", "n", "-", "J", "S", "O", "N", " ", "o", "u", "t", "p", "u", "t" >>, 0, PlainText(out.text), "None", "None") ]
    ELSE [ ok |-> TRUE, status |-> out.code, has_text |-> out.has_text, text |-> out.text,
           err |-> NoError ]

\* call_ollama_chat: the content of the message, or the RelayError raised
call_ollama_chat(out) ==
    LET r == post_json(S_api_chat, out) IN
    IF r.ok /\ ~r.has_text
    THEN [ ok |-> FALSE, status |-> 0, has_text |-> FALSE, text |-> << >>,
           err |-> RelayError(<< "O", "l", "l", "a", "m", "a", " ", "r", "e", "t", "u", "r", "n", "e", "d", " ", "a", "n", " ", "u", "n", "e", "x", "p", "e", "c", "t", "e", "d", " ", "/", "a", "p", "i", "/", "c", "h", "a", "t", " ", "r", "e", "s", "p", "o", "n", "s", "e", " ", "s", "h", "a", "p", "e" >>, r.status, JsonText(EmptyObj), "None", "None") ]
    ELSE r

\* difflib.SequenceMatcher(None, a, b): the longest matching block of
\* a[alo..ahi] and b[blo..bhi] (the longest, then the earliest in a, then the
\* earliest in b), as << i, j, k >>
MatchingBlocks(a, b, alo, ahi, blo, bhi) ==
    { m \in (alo..ahi) \X (blo..bhi) \X (1..(ahi - alo + 1)) :
        /\ m[1] + m[3] - 1 <= ahi
        /\ m[2] + m[3] - 1 <= bhi
        /\ SubSeq(a, m[1], m[1] + m[3] - 1) = SubSeq(b, m[2], m[2] + m[3] - 1) }

find_longest_match(a, b, alo, ahi, blo, bhi) ==
    LET ms == MatchingBlocks(a, b, alo, ahi, blo, bhi) IN
    IF ms = {} THEN << alo, blo, 0 >>
    ELSE CHOOSE m \in ms :
           \A n \in ms :
             \/ m[3] > n[3]
             \/ m[3] = n[3] /\ m[1] < n[1]
             \/ m[3] = n[3] /\ m[1] = n[1] /\ m[2] <= n[2]

\* The number of matching characters get_matching_blocks finds
RECURSIVE Matches(_, _, _, _, _, _)
Matches(a, b, alo, ahi, blo, bhi) ==
    IF alo > ahi \/ blo > bhi THEN 0
    ELSE LET m == find_longest_match(a, b, alo, ahi, blo, bhi) IN
         IF m[3] = 0 THEN 0
         ELSE m[3] + Matches(a, b, alo, m[1] - 1, blo, m[2] - 1)
                   + Matches(a, b, m[1] + m[3], ahi, m[2] + m[3], bhi)

\* SequenceMatcher.ratio() >= 0.4, the cutoff of suggest_model_names:
\* 2.0 * matches / (len(a) + len(b)) >= 0.4
CloseMatch(a, b) ==
    IF Len(a) + Len(b) = 0 THEN TRUE
    ELSE 5 * Matches(a, b, 1, Len(a), 1, Len(b)) >= Len(a) + Len(b)

\* suggest_model_names: the names get_close_matches keeps.  The order and the
\* limit of three do not matter to the caller's test, which is whether any
\* name is kept.
suggest_model_names(name, available) ==
    IF available = << >> THEN << >>
    ELSE SelectSeq(available, LAMBDA x : CloseMatch(x, name))

\* ", ".join(names)
RECURSIVE JoinComma(_)
JoinComma(names) ==
    IF names = << >> THEN << >>
    ELSE IF Len(names) = 1 THEN names[1]
    ELSE names[1] \o << ",", " " >> \o JoinComma(Tail(names))

\* _extract_model_names(tags) after get_tags, [] when get_tags raises
available_models(out) == IF out.kind = "tags" THEN out.names ELSE << >>

\* OllamaClient.chat, lines 229-230: the legacy endpoint cannot serve a
\* response format
legacy_allowed(response_format) == response_format = "None"

(***************************************************************************)
(* State                                                                   *)
(***************************************************************************)

VARIABLES
    cfg,            \* the arguments of run_relay
    pc,             \* the position of run_relay: "init", "loop", the transport
                    \* call in flight ("schema", "json", "fallback", "noschema",
                    \* "dsl", "correct"), "done" or "failed"
    request_id,     \* run_relay's request_id
    stepNo,         \* iterations of the speaker loop completed
    current,        \* run_relay's current
    current_json,   \* run_relay's current_json
    histories,      \* run_relay's histories
    transcript,     \* run_relay's transcript
    records,        \* run_relay's records
    log,            \* the lines of the file at log_path
    calls,          \* the calls client.chat has received
    schema_reason,  \* _structured_model_step's reason
    json_err,       \* _structured_model_step's json_err
    dsl_raw,        \* _dsl_model_step's raw
    dsl_exc,        \* _dsl_model_step's exc
    failure,        \* the exception run_relay raised
    summary,        \* the summary run_relay printed
    c_pc,           \* codec pipeline position
    c_line,         \* the line given to parse_dsl
    c_reply,        \* the JSON reply given to parse_structured_reply instead
    c_lenient,      \* the lenient flag
    c_strict,       \* the strict_ops and strict_targets flags of the decoder
    c_first,        \* parse_dsl(line)
    c_text,         \* serialize_dsl(parse_dsl(line))
    c_second,       \* parse_dsl(serialize_dsl(parse_dsl(line)))
    c_again,        \* format_dsl(format_dsl(line))
    d_queries,      \* the calls of decide_structured_recovery made by a caller:
                    \* the arguments and the decision returned
    t_pc,           \* the position of OllamaClient.chat: "idle", the request in
                    \* flight ("chat", "tags", "generate"), "returned" or "raised"
    t_in,           \* the arguments of OllamaClient.chat
    t_requests,     \* the requests the client has sent
    t_exc,          \* chat's exc: the RelayError of call_ollama_chat
    t_result,       \* the text chat returned, or the RelayError it raised
    r_script,       \* the text of the .choom file given to run_script
    r_state,        \* state.json of the run directory: the stored ids and
                    \* _runner's last_successful_step / last_successful_line
    r_transcript,   \* transcript.jsonl of the run directory, one record a line
    r_calls,        \* the last two calls of run_script: arguments, start index,
                    \* the steps executed, and what the call returned or raised
    r_count,        \* the number of calls of run_script made
    r_fs,           \* the artifacts directory of the run directory, and the
                    \* places outside it that steps wrote
    r_images,       \* the number of images the image server answers with,
                    \* -1 when the request fails
    v_text,         \* the script text given to script_to_dsl / script_to_jsonl
    v_calls         \* the conversions made: function, fail_fast, and the
                    \* (outputs, errors) pair returned

relayVars ==
    << cfg, pc, request_id, stepNo, current, current_json, histories, transcript,
       records, log, calls, schema_reason, json_err, dsl_raw, dsl_exc, failure, summary >>

codecVars == << c_pc, c_line, c_reply, c_lenient, c_strict, c_first, c_text, c_second, c_again >>

clientVars == << t_pc, t_in, t_requests, t_exc, t_result >>

runnerVars == << r_script, r_state, r_transcript, r_calls, r_count, r_fs, r_images >>

convertVars == << v_text, v_calls >>

vars == << relayVars, codecVars, d_queries, clientVars, runnerVars, convertVars >>

NoSummary == [ total_turns |-> 0, retries |-> 0, fallbacks_by_stage |-> [ st \in {} |-> 0 ] ]

\* "ping tool service=relay"
DefaultStart ==
    << "p", "i", "n", "g", " ", "t", "o", "o", "l", " ",
       "s", "e", "r", "v", "i", "c", "e", "=", "r", "e", "l", "a", "y" >>

\* The start lines tried: none given, a valid line, an invalid line, a valid
\* line too long to be relayed
StartLines == { << >>, LineGenTxt, LineOops, LineHuge }

\* The options of run_relay. Plain mode reads none of use_schema,
\* fallback_enabled and allow_unknown_op (_dsl_model_step receives strict and
\* lenient only), so plain runs are taken with one value of each.
Configs ==
    { c \in [ structured : BOOLEAN, use_schema : BOOLEAN, strict : BOOLEAN,
              fallback_enabled : BOOLEAN, allow_unknown_op : BOOLEAN,
              allow_unknown_target : { FALSE }, lenient : { FALSE }, has_log : BOOLEAN,
              add_contract : { TRUE }, raw_json : { FALSE }, turns : 1..MaxTurns,
              start : StartLines ] :
        c.structured \/ (c.use_schema /\ c.fallback_enabled /\ ~c.allow_unknown_op) }

RelayIdle ==
    /\ pc = "init"
    /\ request_id = 0
    /\ stepNo = 0
    /\ current = NoText
    /\ current_json = EmptyRecord
    /\ histories = [ sp \in { "A", "B" } |-> << >> ]
    /\ transcript = << >>
    /\ records = << >>
    /\ log = << >>
    /\ calls = << >>
    /\ schema_reason = << >>
    /\ json_err = NoError
    /\ dsl_raw = NoText
    /\ dsl_exc = NoParseErr
    /\ failure = NoError
    /\ summary = NoSummary

\* The run directory of a script that has never been run
FreshState == [ keys |-> {}, last_successful_step |-> 0, last_successful_line |-> 0 ]

\* The artifacts directory: the files and directories in it (by their
\* components), and the places outside it that were written
EmptyDir == [ files |-> {}, dirs |-> {}, outside |-> {} ]

ConvertIdle ==
    /\ v_text = << >>
    /\ v_calls = << >>

RunnerIdle ==
    /\ r_script = << >>
    /\ r_state = FreshState
    /\ r_transcript = << >>
    /\ r_calls = << >>
    /\ r_count = 0
    /\ r_fs = EmptyDir
    /\ r_images = 0

ClientIdle ==
    /\ t_pc = "idle"
    /\ t_in = [ model |-> << >>, response_format |-> "None", seed |-> 0 ]
    /\ t_requests = << >>
    /\ t_exc = NoError
    /\ t_result = [ ok |-> TRUE, text |-> << >>, status |-> 0, err |-> NoError ]

CodecIdle ==
    /\ c_pc = "idle"
    /\ c_line = << >>
    /\ c_reply = NoText
    /\ c_lenient = FALSE
    /\ c_strict = [ ops |-> TRUE, targets |-> TRUE ]
    /\ c_first = Ok(EmptyRecord)
    /\ c_text = Ok(<< >>)
    /\ c_second = Ok(EmptyRecord)
    /\ c_again = Ok(<< >>)

Init ==
    /\ cfg \in Configs
    /\ RelayIdle
    /\ CodecIdle
    /\ d_queries = << >>
    /\ ClientIdle
    /\ RunnerIdle
    /\ ConvertIdle

(***************************************************************************)
(* run_relay                                                               *)
(***************************************************************************)

\* Speaker with the loop's pair ignored: always the first model
SpeakerAlwaysA == "A"

Speaker == IF stepNo % 2 = 0 THEN "A" ELSE "B"

Other == IF stepNo % 2 = 0 THEN "B" ELSE "A"

accVars == << histories, transcript, records, log, current, current_json, stepNo >>

localVars == << schema_reason, json_err, dsl_raw, dsl_exc >>

\* The exception leaves run_relay
Raise(e) ==
    /\ pc' = "failed"
    /\ failure' = e
    /\ UNCHANGED << accVars, summary >>

\* The call client.chat receives: the response format asked, the number of
\* messages passed and the last of them
Call(fmt, history, prompt, out) ==
    [ rid |-> request_id, fmt |-> fmt, nmsgs |-> Len(history) + 1, prompt |-> prompt,
      out |-> out ]

\* run_relay, lines 686-714: the step returned an accepted result
Accept(response_raw, response, response_json, request_mode, http_status, retry_value, fallback_reason) ==
    LET next_incoming == IF cfg.structured THEN JsonDumps(response_json)
                         ELSE PlainText(response)
        record == build_transcript_record(
                      request_id, Speaker, IF cfg.structured THEN "structured" ELSE "dsl",
                      request_mode, response_raw, response_json, response, retry_value,
                      http_status, fallback_reason,
                      IF cfg.structured THEN response_raw ELSE NoText)
    IN  /\ histories' = [ sp \in { "A", "B" } |->
                            append_exchange(histories[sp], current, next_incoming) ]
        /\ transcript' = Append(transcript,
                                [ speaker |-> Speaker, dsl |-> response,
                                  json |-> response_json,
                                  raw |-> IF cfg.raw_json THEN response_raw ELSE NoText ])
        /\ records' = Append(records, record)
        /\ log' = append_transcript(log, cfg.has_log, record)
        /\ current' = next_incoming
        /\ current_json' = response_json
        /\ stepNo' = stepNo + 1
        /\ pc' = "loop"
        /\ UNCHANGED << failure, summary >>

\* run_relay up to the speaker loop: the histories and the validated start
RunStart ==
    /\ pc = "init"
    /\ \E start \in { IF cfg.start = << >> THEN DefaultStart ELSE cfg.start } :
       \E v \in { dsl_to_json_with_options(start, cfg.lenient) } :
       LET system == IF cfg.structured THEN "" ELSE "contract:dsl"
       IN  IF ~v.ok
           THEN /\ Raise(RelayError(<< "invalid ChoomLang message", v.err.kind >>,
                                    0, NoText, "None", "None"))
           ELSE /\ pc' = "loop"
                /\ histories' = [ sp \in { "A", "B" } |-> new_history(system) ]
                /\ current' = PlainText(start)
                /\ current_json' = v.val
                /\ UNCHANGED << transcript, records, log, stepNo, failure, summary >>
    /\ UNCHANGED << cfg, request_id, calls, localVars, codecVars, d_queries, clientVars, runnerVars, convertVars >>

\* The head of one iteration of the speaker loop, up to the first transport
\* call of the step: the prompt is built and length-guarded
StartStep ==
    /\ pc = "loop"
    /\ stepNo < 2 * cfg.turns
    /\ stepNo < MaxSteps
    /\ request_id' = request_id + 1
    /\ IF cfg.structured
       THEN IF prompt_too_large(StructuredPromptLen(cfg.add_contract, current_json))
            THEN Raise(RelayError(<< "incoming message too large to relay" >>,
                                  0, NoText, "None", "None"))
            ELSE /\ pc' = IF cfg.use_schema THEN "schema" ELSE "noschema"
                 /\ UNCHANGED << accVars, failure, summary >>
       ELSE IF prompt_too_large(DslPromptLen(current.text, current_json))
            THEN Raise(RelayError(<< "incoming message too large to relay" >>,
                                  0, NoText, "None", "None"))
            ELSE /\ pc' = "dsl"
                 /\ UNCHANGED << accVars, failure, summary >>
    /\ UNCHANGED << cfg, calls, localVars, codecVars, d_queries, clientVars, runnerVars, convertVars >>

\* The speaker loop is over: the summary is printed and run_relay returns
Finish ==
    /\ pc = "loop"
    /\ stepNo = 2 * cfg.turns
    /\ summary' = summarize_transcript(records)
    /\ pc' = "done"
    /\ UNCHANGED << cfg, request_id, accVars, calls, localVars, failure, codecVars, d_queries, clientVars, runnerVars, convertVars >>

(***************************************************************************)
(* _structured_model_step                                                  *)
(***************************************************************************)

\* What a stage that accepted returns besides the reply: (request_mode,
\* retry, fallback_reason)
SchemaAccepted == [ mode |-> "structured-schema", retry |-> 0, reason |-> << >> ]

JsonAcceptedNoRetry(reason) == [ mode |-> "structured-json", retry |-> 0, reason |-> reason ]

JsonAccepted(reason) == [ mode |-> "structured-json", retry |-> 1, reason |-> reason ]

FallbackAcceptedSchemaOnly(reason, jerr, retry_count) ==
    [ mode |-> "fallback-dsl", retry |-> retry_count, reason |-> reason ]

FallbackAccepted(reason, jerr, retry_count) ==
    [ mode |-> "fallback-dsl", retry |-> retry_count,
      reason |-> reason \o << ";json-failed:" >> \o jerr.msg ]

NoSchemaAccepted == [ mode |-> "structured-json", retry |-> 0, reason |-> << >> ]

dsl_failure_action_always_correct(strict) == "correct"

\* What the handler of a line that fails to parse does (lines 862-870)
dsl_failure_action(strict) == IF ~strict THEN "raise" ELSE "correct"

json_failure_action_lax(strict, fallback_enabled) ==
    IF ~fallback_enabled THEN "raise-no-fallback" ELSE "fallback-dsl"

\* What the handler of a failed format=json call does (lines 796-806)
json_failure_action(strict, fallback_enabled) ==
    IF strict THEN "raise-strict"
    ELSE IF ~fallback_enabled THEN "raise-no-fallback"
    ELSE "fallback-dsl"

\* The schema-constrained call returns (lines 745-775)
SchemaCall ==
    /\ pc = "schema"
    /\ \E out \in StructOutcomes :
       \E r \in { chat_once(out) } :
       \E p \in { parse_structured_reply(r.raw, ~cfg.allow_unknown_op, ~cfg.allow_unknown_target) } :
         LET prompt == StructuredPrompt(cfg.add_contract, current_json)
             fmt == IF cfg.strict THEN "schema-strict" ELSE "schema-permissive"
             schema_err == IF r.ok THEN p.err ELSE r.err
             decision == decide_structured_recovery(TRUE, FALSE, cfg.strict, cfg.fallback_enabled)
         IN  /\ calls' = Append(calls, Call(fmt, histories[Speaker], prompt, out))
             /\ IF r.ok /\ p.ok
                THEN /\ Accept(r.raw, p.dsl, p.payload, SchemaAccepted.mode, r.status,
                               SchemaAccepted.retry, SchemaAccepted.reason)
                     /\ UNCHANGED localVars
                ELSE IF decision = "fail-no-fallback"
                THEN /\ Raise(RelayError(<< "structured schema stage failed" >> \o schema_err.msg,
                                         schema_err.http_status, schema_err.raw, "None",
                                         "structured-schema"))
                     /\ UNCHANGED localVars
                ELSE /\ pc' = "json"
                     /\ schema_reason' = << "schema-failed:" >> \o schema_err.msg
                     /\ UNCHANGED << accVars, failure, summary, json_err, dsl_raw, dsl_exc >>
    /\ UNCHANGED << cfg, request_id, codecVars, d_queries, clientVars, runnerVars, convertVars >>

\* The format=json call returns (lines 776-816, up to the transport call of
\* the protocol-line fallback)
JsonCall ==
    /\ pc = "json"
    /\ \E out \in StructOutcomes :
       \E r \in { chat_once(out) } :
       \E p \in { parse_structured_reply(r.raw, ~cfg.allow_unknown_op, ~cfg.allow_unknown_target) } :
         LET prompt == StructuredPrompt(cfg.add_contract, current_json)
             jerr == IF r.ok THEN p.err ELSE r.err
             acc == JsonAccepted(schema_reason)
             wrapped == format_structured_failure("structured-json", jerr)
             incoming_dsl == serialize_dsl(current_json).val
         IN  /\ calls' = Append(calls, Call("json", histories[Speaker], prompt, out))
             /\ IF r.ok /\ p.ok
                THEN /\ Accept(r.raw, p.dsl, p.payload, acc.mode, r.status, acc.retry, acc.reason)
                     /\ UNCHANGED localVars
                ELSE IF json_failure_action(cfg.strict, cfg.fallback_enabled) = "raise-strict"
                THEN /\ Raise(wrapped)
                     /\ UNCHANGED localVars
                ELSE IF json_failure_action(cfg.strict, cfg.fallback_enabled) = "raise-no-fallback"
                THEN /\ Raise(RelayError(wrapped.msg \o << "automatic fallback disabled" >>,
                                         wrapped.http_status, wrapped.raw, "None", wrapped.stage))
                     /\ UNCHANGED localVars
                ELSE IF prompt_too_large(DslPromptLen(incoming_dsl, current_json))
                THEN /\ Raise(RelayError(<< "incoming message too large to relay" >>,
                                         0, NoText, "None", "None"))
                     /\ UNCHANGED localVars
                ELSE /\ pc' = "fallback"
                     /\ json_err' = jerr
                     /\ UNCHANGED << accVars, failure, summary, schema_reason, dsl_raw, dsl_exc >>
    /\ UNCHANGED << cfg, request_id, codecVars, d_queries, clientVars, runnerVars, convertVars >>

\* The call of the protocol-line fallback returns: _dsl_model_step with
\* strict=False (lines 807-826 and 857-883)
FallbackCall ==
    /\ pc = "fallback"
    /\ \E out \in DslOutcomes :
       \E r \in { chat_once(out) } :
       \E payload \in { dsl_to_json_with_options(r.raw.text, cfg.lenient) } :
         LET incoming_dsl == serialize_dsl(current_json).val
             prompt == DslPrompt(incoming_dsl, current_json)
             acc == FallbackAccepted(schema_reason, json_err, 0)
         IN  /\ calls' = Append(calls, Call("none", histories[Speaker], prompt, out))
             /\ IF ~r.ok
                THEN Raise(r.err) /\ UNCHANGED localVars
                ELSE IF payload.ok
                THEN /\ Accept(r.raw, r.raw.text, payload.val, acc.mode, r.status, acc.retry,
                               acc.reason)
                     /\ UNCHANGED localVars
                ELSE IF dsl_failure_action(FALSE) = "raise"
                THEN Raise(DSLParseError(payload.err)) /\ UNCHANGED localVars
                ELSE /\ pc' = "correct"
                     /\ dsl_raw' = r.raw
                     /\ dsl_exc' = payload.err
                     /\ UNCHANGED << accVars, failure, summary, schema_reason, json_err >>
    /\ UNCHANGED << cfg, request_id, codecVars, d_queries, clientVars, runnerVars, convertVars >>

\* use_schema is off: the single call returns (lines 828-834)
NoSchemaCall ==
    /\ pc = "noschema"
    /\ \E out \in StructOutcomes :
       \E r \in { chat_once(out) } :
       \E p \in { parse_structured_reply(r.raw, ~cfg.allow_unknown_op, ~cfg.allow_unknown_target) } :
         LET prompt == StructuredPrompt(cfg.add_contract, current_json)
         IN  /\ calls' = Append(calls, Call("schema-permissive", histories[Speaker], prompt, out))
             /\ IF ~r.ok THEN Raise(r.err)
                ELSE IF ~p.ok THEN Raise(p.err)
                ELSE Accept(r.raw, p.dsl, p.payload, NoSchemaAccepted.mode, r.status,
                            NoSchemaAccepted.retry, NoSchemaAccepted.reason)
    /\ UNCHANGED << cfg, request_id, localVars, codecVars, d_queries, clientVars, runnerVars, convertVars >>

(***************************************************************************)
(* _dsl_model_step, called by run_relay in plain mode                      *)
(***************************************************************************)

\* The first call returns (lines 857-870 and 883)
DslCall ==
    /\ pc = "dsl"
    /\ \E out \in DslOutcomes :
       \E r \in { chat_once(out) } :
       \E payload \in { dsl_to_json_with_options(r.raw.text, cfg.lenient) } :
         LET prompt == DslPrompt(current.text, current_json)
         IN  /\ calls' = Append(calls, Call("none", histories[Speaker], prompt, out))
             /\ IF ~r.ok
                THEN Raise(r.err) /\ UNCHANGED localVars
                ELSE IF payload.ok
                THEN /\ Accept(r.raw, r.raw.text, payload.val, "dsl", r.status, 0, << >>)
                     /\ UNCHANGED localVars
                ELSE IF dsl_failure_action(cfg.strict) = "raise"
                THEN Raise(DSLParseError(payload.err)) /\ UNCHANGED localVars
                ELSE /\ pc' = "correct"
                     /\ dsl_raw' = r.raw
                     /\ dsl_exc' = payload.err
                     /\ UNCHANGED << accVars, failure, summary, schema_reason, json_err >>
    /\ UNCHANGED << cfg, request_id, codecVars, d_queries, clientVars, runnerVars, convertVars >>

\* The correction call returns (lines 871-881)
CorrectionCall ==
    /\ pc = "correct"
    /\ \E out \in DslOutcomes :
       \E r \in { chat_once(out) } :
       \E payload \in { dsl_to_json_with_options(r.raw.text, cfg.lenient) } :
         LET correction_prompt == build_guard_prompt(dsl_exc, dsl_raw.text)
         IN  /\ calls' = Append(calls, [ rid |-> request_id, fmt |-> "none",
                                         nmsgs |-> Len(histories[Speaker]) + 3,
                                         prompt |-> correction_prompt, out |-> out ])
             /\ IF ~r.ok THEN Raise(r.err)
                ELSE IF payload.ok
                THEN Accept(r.raw, r.raw.text, payload.val, "dsl", r.status, 1, << >>)
                ELSE Raise(RelayError(<< "model failed strict ChoomLang validation after retry",
                                         payload.err.kind >>, 0, NoText, "None", "dsl"))
    /\ UNCHANGED << cfg, request_id, localVars, codecVars, d_queries, clientVars, runnerVars, convertVars >>

Next ==
    \/ RunStart
    \/ StartStep
    \/ SchemaCall
    \/ JsonCall
    \/ FallbackCall
    \/ NoSchemaCall
    \/ DslCall
    \/ CorrectionCall
    \/ Finish

Spec == Init /\ [][Next]_vars

(***************************************************************************)
(* The codec on its own: a line is parsed, the record is serialized and    *)
(* the text is parsed again.                                               *)
(***************************************************************************)

\* All strings over chars of length at most n
Strs(chars, n) == UNION { [ 1..k -> chars ] : k \in 0..n }

\* The characters of the parameter values tried
ValChars == { "5", "a", "\"", "\\", " ", "=", "." }

\* "jack img k=" followed by the value text
LineOfValue(v) == << "j", "a", "c", "k", " ", "i", "m", "g", " ", "k", "=" >> \o v

\* Lines of the repository's tests and of the same shapes
SampleLines ==
    { << "j", "a", "c", "k", " ", "i", "m", "g", "[", "2", "]", " ", "s", "t", "y", "l", "e", "=", "s", "t", "u", "d", "i", "o", " ", "r", "e", "s", "=", "1", "0", "2", "4", "x", "1", "0", "2", "4", " ", "s", "e", "e", "d", "=", "4", "2", " ", "p", "r", "o", "m", "p", "t", "=", "\"", "n", "e", "o", "n", " ", "c", "i", "t", "y", "\"" >>,
      << "g", "e", "n", " ", "t", "x", "t", " ", "k", "=", "\"", "t", "r", "u", "e", "\"" >>,
      << "g", "e", "n", " ", "t", "x", "t", " ", "k", "=", "1", ".", "5", "0" >>,
      << "g", "e", "n", " ", "t", "x", "t", " ", "k", "=", "0", ".", "0", "0", "0", "0", "1" >>,
      << "g", "e", "n", " ", "i", "m", "g", "[", "0", "]" >>,
      << "g", "e", "n", " ", "t", "x", "t", " ", "t", "e", "x", "t", "=", "\"", "h", "e", " ", "s", "a", "i", "d", " ", "\\", "\"", "y", "o", "\\", "\"", "\"" >>,
      << "g", "e", "n", " ", "t", "x", "t", " ", "k", "=", "T", "R", "U", "E" >>,
      << "g", "e", "n", " ", "t", "x", "t", " ", "k", "=", "-", "7" >>,
      << "g", "e", "n", " ", "t", "x", "t", " ", "k", "=", "v", " ", "." >>,
      << "j", "a", "c", "k", " ", "i", "m", "g", "[", "1", "]", " ", "z", "=", "9", " ", "a", "=", "1" >>,
      << "g", "e", "n", " ", "t", "x", "t", " ", "b", "=", "1", " ", "a", "=", "2", " ", "B", "=", "3", " ", "a", "b", "=", "4" >>,
      << "g", "e", "n", " ", "t", "x", "t", " ", "a", "=", "T", "r", "u", "e", " ", "b", "=", "-", "1", ".", "5", " ", "c", "=", "-", " ", "d", "=", "1", ".", "2", ".", "3", " ", "e", "=", "\"", "-", "7", "\"", " ", "f", "=", "f", "A", "l", "S", "e", " ", "g", "=", ".", "5", " ", "h", "=", "5", ".", " ", "i", "=", "-", "0" >>,
      << "p", "i", "n", "g", " ", "t", "x", "t", " ", "." >>,
      << "g", "e", "n", " ", "t", "x", "t", " ", "." >>,
      << "g", "e", "n", " ", "t", "x", "t", " ", ".", " ", "." >>,
      << "." >>,
      << "g", "e", "n", " ", "." >>,
      << "g", "e", "n", " ", "t", "x", "t", " ", "k", "=", "v", " ", "," >>,
      << "g", "e", "n", " ", "t", "x", "t", " ", "k", "=", "v", " ", ";" >>,
      << "g", "e", "n", " ", "t", "x", "t", " ", "k", "=", "v", " ", ".", " ", ";" >>,
      << "g", "e", "n", " ", "t", "x", "t", " ", "k", "=", "v", "." >>,
      << "g", "e", "n", " ", "t", "x", "t", " ", "k", "=", "\"", "a", " ", ".", "\"" >>,
      << "g", "e", "n", " ", "t", "x", "t", " ", "k", "=", "v", " ", "#" >>,
      << "g", "e", "n", " ", "t", "x", "t", " ", "k", "=", "\"", "a", "\\", "\\", "\"" >>,
      << "g", "e", "n", " ", "t", "x", "t", " ", "k", "=", "\"", "a", "\\", "\\", "\\", "\"" >>,
      << "g", "e", "n", " ", "t", "x", "t", " ", "k", "=", "\"", "a", "\\", "\\", "\"", " ", "b", "=", "1" >>,
      << " ", " ", "g", "e", "n", " ", " ", "t", "x", "t", "\t", "k", "=", "\"", "a", " ", "=", "\t", "b", "\"", " ", " " >>,
      << "g", "e", "n", " ", "t", "x", "t", " ", "k", "=", "\"", "a", " ", "b", "\"", "c", "=", "\"", "d", " ", "e", "\"", " ", "f", "=", "1" >>,
      << " ", "\t", " " >>,
      << "g", "e", "n", " ", "t", "x", "t", " ", "k", "=", "\"", "a", "\"", " ", "\"" >>,
      << "g", "e", "n", " ", "\"", "t", "x", "t" >>,
      << >> }

\* The characters the tried parameter tokens are made of
TokChars == { "a", "\"", " ", "=" }

\* "gen txt " followed by the text of parameter tokens
LineOfTokens(w) == << "g", "e", "n", " ", "t", "x", "t", " " >> \o w

\* Operation names: the aliases, the canonical names, names that are neither
OpNames ==
    { ALIAS_TO_CANON[i][1] : i \in 1..Len(ALIAS_TO_CANON) }
      \cup CANONICAL_OPS
      \cup { << "s", "u", "c", "c", "e", "s", "s" >>, << "J", "a", "c", "k" >>, << "g", "e", "n", "s" >> }

\* "<op> img k=1"
LineOfOp(op) == op \o << " ", "i", "m", "g", " ", "k", "=", "1" >>

\* "gen img[<content>]", and "gen img"
LineOfCount(content) == << "g", "e", "n", " ", "i", "m", "g", "[" >> \o content \o << "]" >>

CountLines ==
    { LineOfCount(c) : c \in Strs({ "0", "1", "2", "-", "x" }, 2) }
      \cup { << "g", "e", "n", " ", "i", "m", "g" >> }

CodecLines ==
    { LineOfValue(v) : v \in Strs(ValChars, MaxValLen) }
      \cup { LineOfTokens(w) : w \in Strs(TokChars, MaxValLen + 1) }
      \cup { LineOfOp(op) : op \in OpNames }
      \cup CountLines
      \cup SampleLines

\* JSON replies with targets and parameter keys of several shapes:
\* {"op":"gen","target":T,"count":N,"params":{K:1}}
ReplyTargets == { S_txt, << "m", "y", " ", "i", "m", "g" >>, << "i", "m", "g", "[", "2", "]" >>, << >> }

ReplyKeys == Strs({ "a", " ", "=" }, 2)

ReplyOf(target, count, key) ==
    JsonText([ k \in { "op", "target", "count", "params" } |->
                 IF k = "op" THEN StrV(S_gen)
                 ELSE IF k = "target" THEN StrV(target)
                 ELSE IF k = "count" THEN IntV(count)
                 ELSE DictV([ x \in { key } |-> IntV(1) ]) ])

\* The characters of the string values tried in replies
ReplyValChars == { "a", "\"", "\\", " ", "=" }

\* {"op":"gen","target":"txt","count":1,"params":{"k":V}} for a string V
ReplyOfValue(v) ==
    JsonText([ k \in { "op", "target", "count", "params" } |->
                 IF k = "op" THEN StrV(S_gen)
                 ELSE IF k = "target" THEN StrV(S_txt)
                 ELSE IF k = "count" THEN IntV(1)
                 ELSE DictV([ x \in { << "k" >> } |-> StrV(v) ]) ])

\* Script texts: the ones of the tests, and texts with a line that does not
\* parse, with comments, with blank lines, with a quoted "#"
ScriptTexts ==
    { << "g", "e", "n", " ", "t", "x", "t", " ", "p", "r", "o", "m", "p", "t", "=", "h", "e", "l", "l", "o", "\n", "c", "l", "a", "s", "s", "i", "f", "y", " ", "t", "x", "t", " ", "l", "a", "b", "e", "l", "=", "o", "k" >>,
      << "o", "o", "p", "s" >>,
      << "g", "e", "n", " ", "t", "x", "t", " ", "k", "=", "1", "\n", "o", "o", "p", "s" >>,
      << "g", "e", "n", " ", "t", "x", "t", " ", "k", "=", "1", " ", "#", " ", "n", "o", "t", "e" >>,
      << "#", " ", "c" >>,
      << >>,
      << "g", "e", "n", " ", "t", "x", "t", " ", "k", "=", "1", "\n", "\n", "p", "i", "n", "g", " ", "t", "x", "t" >>,
      << "g", "e", "n", " ", "t", "x", "t", " ", "k", "=", "1", " ", "." >>,
      << "g", "e", "n", " ", "t", "x", "t", " ", "k", "=", "\"", "#", "\"" >>,
      << "o", "o", "p", "s", "\n", "g", "e", "n", " ", "t", "x", "t", " ", "k", "=", "1" >>,
      << " ", " ", "p", "i", "n", "g", " ", "t", "x", "t", " ", " ", "\n" >>,
      << "#", " ", "c", "\n", "o", "o", "p", "s" >> }

S_text == << "t", "e", "x", "t" >>

S_prompt == << "p", "r", "o", "m", "p", "t" >>

\* Parameter maps of script replies: a text, no text, a text that is not a
\* string, a text with a prompt, a prompt alone
ScriptParams ==
    { [ k \in { S_text } |-> StrV(t) ] : t \in ScriptTexts }
      \cup { EmptyParams,
             [ k \in { S_text } |-> IntV(1) ],
             [ k \in { S_text } |-> NullV ],
             [ k \in { S_prompt } |-> StrV(<< "x" >>) ] }
      \cup { [ k \in { S_text, S_prompt } |-> StrV(IF k = S_text THEN t ELSE << "x" >>) ] :
               t \in { << "p", "i", "n", "g", " ", "t", "x", "t" >>, << "o", "o", "p", "s" >> } }

\* {"op":OP,"target":TARGET,"params":PARAMS}
ScriptReplyOf(op, target, params) ==
    JsonText([ k \in { "op", "target", "params" } |->
                 IF k = "op" THEN StrV(op)
                 ELSE IF k = "target" THEN StrV(target)
                 ELSE DictV(params) ])

ScriptReplies ==
    { ScriptReplyOf(op, target, params) :
        op \in { S_gen, << "j", "a", "c", "k" >>, S_plan },
        target \in { S_script, S_txt },
        params \in ScriptParams }

\* Replies with a field of the wrong type or an unknown name:
\* {"op":OP,"target":TARGET,"count":COUNT,"params":PARAMS}
FieldReplyOf(op, target, count, params) ==
    JsonText([ k \in { "op", "target", "count", "params" } |->
                 IF k = "op" THEN op
                 ELSE IF k = "target" THEN target
                 ELSE IF k = "count" THEN count
                 ELSE params ])

FieldReplies ==
    { FieldReplyOf(op, target, count, params) :
        op \in { StrV(S_gen), IntV(5), StrV(<< "f", "i", "e", "l", "d", " ", "t", "a", "r", "g", "e", "t" >>) },
        target \in { StrV(S_txt), NullV, StrV(<< "z", "z" >>), StrV(<< "f", "i", "e", "l", "d", " ", "o", "p" >>) },
        count \in { IntV(1), IntV(0), StrV(<< "f", "i", "e", "l", "d", " ", "p", "a", "r", "a", "m", "s" >>) },
        params \in { DictV(EmptyParams), StrV(<< "x" >>) } }

\* A payload json_to_dsl can read: str(op), str(target), int(count) and the
\* keys of params are taken without a conversion failing
WellTyped(obj) ==
    /\ obj["op"].t = "str"
    /\ obj["target"].t = "str"
    /\ Get(obj, "count", IntV(1)).t = "int"
    /\ Get(obj, "params", DictV(EmptyParams)).t = "dict"

CodecReplies ==
    { ReplyOf(t, n, key) : t \in ReplyTargets, n \in 0..2, key \in ReplyKeys }
      \cup FieldReplies
      \cup { ReplyOfValue(v) : v \in Strs(ReplyValChars, MaxValLen) }
      \cup ScriptReplies
      \cup { ReplyGenTxt, ReplyForgeTxt, ReplyUnknownOp }

CodecInit ==
    /\ cfg = CHOOSE c \in Configs : TRUE
    /\ RelayIdle
    /\ \/ /\ c_pc = "input"
          /\ c_line \in CodecLines
          /\ c_reply = NoText
          /\ c_strict = [ ops |-> TRUE, targets |-> TRUE ]
       \/ /\ c_pc = "reply"
          /\ c_line = << >>
          /\ c_reply \in CodecReplies
          /\ c_strict \in [ ops : BOOLEAN, targets : BOOLEAN ]
    /\ c_lenient \in BOOLEAN
    /\ c_first = Ok(EmptyRecord)
    /\ c_text = Ok(<< >>)
    /\ c_second = Ok(EmptyRecord)
    /\ c_again = Ok(<< >>)
    /\ d_queries = << >>
    /\ ClientIdle
    /\ RunnerIdle
    /\ ConvertIdle

\* parse_dsl(line, lenient=lenient)
CodecParse ==
    /\ c_pc = "input"
    /\ c_first' = parse_dsl(c_line, c_lenient)
    /\ c_pc' = "parsed"
    /\ UNCHANGED << c_line, c_reply, c_lenient, c_strict, c_text, c_second, c_again, relayVars, d_queries, clientVars, runnerVars, convertVars >>

\* parse_structured_reply(raw, strict_ops=..., strict_targets=...): the
\* record accepted from a JSON reply
CodecDecode ==
    /\ c_pc = "reply"
    /\ \E p \in { parse_structured_reply(c_reply, c_strict.ops, c_strict.targets) } :
         c_first' = IF p.ok THEN Ok(p.payload)
                    ELSE Err("structured relay validation failed",
                             << p.err.reason, p.detail.message, p.detail.suggestion >>)
    /\ c_pc' = "parsed"
    /\ UNCHANGED << c_line, c_reply, c_lenient, c_strict, c_text, c_second, c_again, relayVars, d_queries, clientVars, runnerVars, convertVars >>

\* translate.json_to_dsl(payload): the decoded object goes to serialize_dsl as
\* it is
CodecTranslate ==
    /\ c_pc = "reply"
    /\ WellTyped(c_reply.obj)
    /\ c_first' = Ok([ op |-> c_reply.obj["op"].v,
                       target |-> c_reply.obj["target"].v,
                       count |-> Get(c_reply.obj, "count", IntV(1)).v,
                       params |-> Get(c_reply.obj, "params", DictV(EmptyParams)).v ])
    /\ c_pc' = "given"
    /\ UNCHANGED << c_line, c_reply, c_lenient, c_strict, c_text, c_second, c_again, relayVars, d_queries, clientVars, runnerVars, convertVars >>

\* serialize_dsl of the parsed record
CodecSerialize ==
    /\ c_pc \in { "parsed", "given" }
    /\ c_first.ok
    /\ c_text' = serialize_dsl(c_first.val)
    /\ c_pc' = "serialized"
    /\ UNCHANGED << c_line, c_reply, c_lenient, c_strict, c_first, c_second, c_again, relayVars, d_queries, clientVars, runnerVars, convertVars >>

\* parse_dsl of the serialized text
CodecReparse ==
    /\ c_pc = "serialized"
    /\ c_text.ok
    /\ c_second' = parse_dsl(c_text.val, c_lenient)
    /\ c_pc' = "reparsed"
    /\ UNCHANGED << c_line, c_reply, c_lenient, c_strict, c_first, c_text, c_again, relayVars, d_queries, clientVars, runnerVars, convertVars >>

\* format_dsl applied to the text format_dsl gave: serialize_dsl of the second
\* parse, or the error of the second parse
CodecReformat ==
    /\ c_pc = "reparsed"
    /\ c_again' = IF c_second.ok THEN serialize_dsl(c_second.val) ELSE c_second
    /\ c_pc' = "reformatted"
    /\ UNCHANGED << c_line, c_reply, c_lenient, c_strict, c_first, c_text, c_second, relayVars, d_queries, clientVars, runnerVars, convertVars >>

CodecNext ==
    \/ CodecParse
    \/ CodecDecode
    \/ CodecTranslate
    \/ CodecSerialize
    \/ CodecReparse
    \/ CodecReformat

CodecSpec == CodecInit /\ [][CodecNext]_vars

(***************************************************************************)
(* The decision function on its own: a caller asks it for decisions, as    *)
(* tests/test_relay.py does with its matrix of cases.                      *)
(***************************************************************************)

DecideInit ==
    /\ cfg = CHOOSE c \in Configs : TRUE
    /\ RelayIdle
    /\ CodecIdle
    /\ d_queries = << >>
    /\ ClientIdle
    /\ RunnerIdle
    /\ ConvertIdle

\* decide_structured_recovery(schema_failed=..., json_failed=..., strict=...,
\* fallback_enabled=...)
DecideQuery ==
    /\ Len(d_queries) < MaxQueries
    /\ \E sf \in BOOLEAN, jf \in BOOLEAN, st \in BOOLEAN, fb \in BOOLEAN :
         d_queries' = Append(d_queries,
                             [ schema_failed |-> sf, json_failed |-> jf, strict |-> st,
                               fallback_enabled |-> fb,
                               decision |-> decide_structured_recovery(sf, jf, st, fb) ])
    /\ UNCHANGED << relayVars, codecVars, clientVars, runnerVars, convertVars >>

DecideNext == DecideQuery

DecideSpec == DecideInit /\ [][DecideNext]_vars

(***************************************************************************)
(* OllamaClient.chat, one step per request sent                            *)
(***************************************************************************)

S_llama3 == << "l", "l", "a", "m", "a", "3" >>

S_llama2 == << "l", "l", "a", "m", "a", "2" >>

S_mistral == << "m", "i", "s", "t", "r", "a", "l" >>

\* What the endpoint may do with a POST to /api/chat and to /api/generate
ChatOutcomes ==
    { HttpOk(TRUE, LineGenTxt), HttpOk(FALSE, << >>), HttpNotJson,
      HttpError(404, << "n", "o", "t", " ", "f", "o", "u", "n", "d" >>), HttpError(500, << "b", "o", "o", "m" >>),
      HttpError(502, << "u", "p", "s", "t", "r", "e", "a", "m", " ", "s", "a", "i", "d", " ", "H", "T", "T", "P", " ", "4", "0", "4" >>), HttpTimeout }

GenerateOutcomes ==
    { HttpOk(TRUE, LineForgeTxt), HttpOk(FALSE, << >>), HttpError(404, << "n", "o", "t", " ", "f", "o", "u", "n", "d" >>), HttpTimeout }

\* What get_tags gives: the names listed, or a RelayError
TagsOutcomes ==
    { [ kind |-> "tags", names |-> ns ] :
        ns \in { << >>, << S_llama3 >>, << S_mistral >>, << S_llama2, S_mistral >> } }
      \cup { [ kind |-> "error", names |-> << >> ] }

ChatInputs ==
    [ model : { S_llama3, S_llama2, S_mistral }, response_format : { "None", "json" }, seed : { 0, 7 } ]

Request(path) ==
    [ path |-> path, model |-> t_in.model, seed |-> t_in.seed,
      format |-> IF path = S_api_chat THEN t_in.response_format ELSE "None" ]

Returned(text, status) ==
    /\ t_pc' = "returned"
    /\ t_result' = [ ok |-> TRUE, text |-> text, status |-> status, err |-> NoError ]

Raised(e) ==
    /\ t_pc' = "raised"
    /\ t_result' = [ ok |-> FALSE, text |-> << >>, status |-> 0, err |-> e ]

\* chat, lines 229-239: past the except clause
LegacyOrRaise ==
    IF ~legacy_allowed(t_in.response_format)
    THEN /\ Raised(RelayError(<< "s", "t", "r", "u", "c", "t", "u", "r", "e", "d", " ", "r", "e", "l", "a", "y", " ", "r", "e", "q", "u", "i", "r", "e", "s", " ", "O", "l", "l", "a", "m", "a", " ", "/", "a", "p", "i", "/", "c", "h", "a", "t", " ", "e", "n", "d", "p", "o", "i", "n", "t", " ", "s", "u", "p", "p", "o", "r", "t" >>, 0, NoText, "None", "None"))
         /\ UNCHANGED t_requests
    ELSE /\ t_pc' = "generate"
         /\ t_requests' = Append(t_requests, Request(S_api_generate))
         /\ UNCHANGED t_result

ClientInit ==
    /\ cfg = CHOOSE c \in Configs : TRUE
    /\ RelayIdle
    /\ CodecIdle
    /\ d_queries = << >>
    /\ ClientIdle
    /\ RunnerIdle
    /\ ConvertIdle

\* chat is called: the request to /api/chat is sent
ChatStart ==
    /\ t_pc = "idle"
    /\ \E in \in ChatInputs :
         /\ t_in' = in
         /\ t_requests' = << [ path |-> S_api_chat, model |-> in.model, seed |-> in.seed,
                               format |-> in.response_format ] >>
    /\ t_pc' = "chat"
    /\ UNCHANGED << t_exc, t_result, relayVars, codecVars, d_queries, runnerVars, convertVars >>

\* call_ollama_chat returns or raises
ChatPrimaryReturns ==
    /\ t_pc = "chat"
    /\ \E out \in ChatOutcomes :
       \E r \in { call_ollama_chat(out) } :
         IF r.ok
         THEN /\ Returned(r.text, r.status)
              /\ UNCHANGED << t_requests, t_exc >>
         ELSE /\ t_exc' = r.err
              /\ IF r.err.http_status = 404
                 THEN /\ t_pc' = "tags"
                      /\ t_requests' = Append(t_requests, Request(S_api_tags))
                      /\ UNCHANGED t_result
                 ELSE IF ~Contains(r.err.msg, S_http_404)
                 THEN /\ Raised(r.err)
                      /\ UNCHANGED t_requests
                 ELSE LegacyOrRaise
    /\ UNCHANGED << t_in, relayVars, codecVars, d_queries, runnerVars, convertVars >>

\* get_tags returns or raises
TagsReturns ==
    /\ t_pc = "tags"
    /\ \E out \in TagsOutcomes :
       \E suggestions \in { suggest_model_names(t_in.model, available_models(out)) } :
         IF suggestions # << >>
         THEN /\ Raised(RelayError(<< "m", "o", "d", "e", "l", " ", "'" >> \o t_in.model
                                     \o << "'", " ", "n", "o", "t", " ", "f", "o", "u", "n", "d", ".", " ", "C", "l", "o", "s", "e", "s", "t", " ", "m", "a", "t", "c", "h", "e", "s", " ", "f", "r", "o", "m", " ", "o", "l", "l", "a", "m", "a", " ", "l", "i", "s", "t", ":", " " >>
                                     \o JoinComma(suggestions),
                                   t_exc.http_status, t_exc.raw, "model-not-found", t_exc.stage))
              /\ UNCHANGED t_requests
         ELSE IF ~Contains(t_exc.msg, S_http_404)
         THEN /\ Raised(t_exc)
              /\ UNCHANGED t_requests
         ELSE LegacyOrRaise
    /\ UNCHANGED << t_in, t_exc, relayVars, codecVars, d_queries, runnerVars, convertVars >>

\* post_json("/api/generate") returns or raises
GenerateReturns ==
    /\ t_pc = "generate"
    /\ \E out \in GenerateOutcomes :
       \E r \in { post_json(S_api_generate, out) } :
         IF ~r.ok THEN Raised(r.err)
         ELSE IF ~r.has_text
         THEN Raised(RelayError(<< "O", "l", "l", "a", "m", "a", " ", "r", "e", "t", "u", "r", "n", "e", "d", " ", "a", "n", " ", "u", "n", "e", "x", "p", "e", "c", "t", "e", "d", " ", "r", "e", "s", "p", "o", "n", "s", "e", " ", "s", "h", "a", "p", "e" >>, r.status, NoText, "None", "None"))
         ELSE Returned(r.text, r.status)
    /\ UNCHANGED << t_in, t_requests, t_exc, relayVars, codecVars, d_queries, runnerVars, convertVars >>

ClientNext == ChatStart \/ ChatPrimaryReturns \/ TagsReturns \/ GenerateReturns

ClientSpec == ClientInit /\ [][ClientNext]_vars

(***************************************************************************)
(* adapters.py                                                             *)
(***************************************************************************)

S_path == << "p", "a", "t", "h" >>

S_seed == << "s", "e", "e", "d" >>

S_step == << "s", "t", "e", "p" >>

S_n == << "n" >>

S_write_file == << "w", "r", "i", "t", "e", "_", "f", "i", "l", "e" >>

S_read_file == << "r", "e", "a", "d", "_", "f", "i", "l", "e" >>

S_mkdir == << "m", "k", "d", "i", "r" >>

S_list_dir == << "l", "i", "s", "t", "_", "d", "i", "r" >>

S_a1111_txt2img == << "a", "1", "1", "1", "1", "_", "t", "x", "t", "2", "i", "m", "g" >>

S_choom == << ".", "c", "h", "o", "o", "m" >>

S_png == << ".", "p", "n", "g" >>

\* str(value) of a parameter value
StrOf(value) ==
    IF value.t = "str" THEN value.v
    ELSE IF value.t = "int" THEN IntToStr(value.v)
    ELSE IF value.t = "bool" THEN (IF value.v THEN << "T", "r", "u", "e" >> ELSE << "F", "a", "l", "s", "e" >>)
    ELSE IF value.t = "float" THEN FloatToStr(value.v)
    ELSE << "N", "o", "n", "e" >>

\* PurePosixPath(raw).parts without the root: the components between the
\* slashes, the empty ones and "." dropped
RECURSIVE PathParts(_)
PathParts(raw) ==
    LET slashes == { i \in 1..Len(raw) : raw[i] = "/" } IN
    IF slashes = {}
    THEN (IF raw = << >> \/ raw = << "." >> THEN << >> ELSE << raw >>)
    ELSE LET j == CHOOSE i \in slashes : \A k \in slashes : i <= k
             first == SubSeq(raw, 1, j - 1)
         IN  (IF first = << >> \/ first = << "." >> THEN << >> ELSE << first >>)
               \o PathParts(SubSeq(raw, j + 1, Len(raw)))

\* PurePosixPath(raw).is_absolute()
IsAbsolute(raw) == raw # << >> /\ raw[1] = "/"

\* _validate_relative_artifact_path: "ok" or the RunError
validate_relative_artifact_path(raw) ==
    IF raw = << >> THEN "adapter path must not be empty"
    ELSE IF IsAbsolute(raw) THEN "unsafe artifact path (absolute paths are not allowed)"
    ELSE IF << ".", "." >> \in { PathParts(raw)[i] : i \in 1..Len(PathParts(raw)) }
    THEN "unsafe artifact path (path traversal is not allowed)"
    ELSE "ok"

\* Where the components lead from the artifacts directory: each ".." leaves
\* the directory reached so far, and one taken at the artifacts directory
\* itself leaves the artifacts directory (no symbolic links)
RECURSIVE Walk(_, _, _)
Walk(parts, i, at) ==
    IF i > Len(parts) THEN at
    ELSE IF parts[i] = << ".", "." >>
    THEN Walk(parts, i + 1,
              IF at.names = << >> THEN [ at EXCEPT !.inside = FALSE ]
              ELSE [ at EXCEPT !.names = SubSeq(@, 1, Len(@) - 1) ])
    ELSE Walk(parts, i + 1, [ at EXCEPT !.names = Append(@, parts[i]) ])

\* The place artifacts_dir / raw names: an absolute raw replaces the
\* artifacts directory
Locate(raw) == Walk(PathParts(raw), 1, [ inside |-> ~IsAbsolute(raw), names |-> << >> ])

\* resolve_artifact_path: the place, or the RunError
resolve_artifact_path(raw) ==
    IF validate_relative_artifact_path(raw) # "ok"
    THEN [ err |-> validate_relative_artifact_path(raw), at |-> Locate(raw) ]
    ELSE IF ~Locate(raw).inside
    THEN [ err |-> "unsafe artifact path (must stay within artifacts)", at |-> Locate(raw) ]
    ELSE [ err |-> "ok", at |-> Locate(raw) ]

\* The directories above the place, inside the artifacts directory
Ancestors(names) == { SubSeq(names, 1, k) : k \in 1..(Len(names) - 1) }

IsDir(fs, names) == names = << >> \/ names \in fs.dirs

\* A file operation a step performed
FileOp(kind, at) == [ kind |-> kind, at |-> at ]

\* What an adapter did: "ok", a RunError or "OSError" (not a RunError: it
\* leaves run_script uncaught); the file operations; the directory after
Did(outcome, ops, fs) == [ outcome |-> outcome, ops |-> ops, fs |-> fs ]

\* Path.mkdir(parents=True, exist_ok=True) on a place inside the artifacts
\* directory
MakeDirs(fs, names) ==
    IF (Ancestors(names) \cup { names }) \cap fs.files # {}
    THEN Did("OSError", << >>, fs)
    ELSE Did("ok", IF names = << >> THEN << >> ELSE << FileOp("mkdir", [ inside |-> TRUE, names |-> names ]) >>,
             [ fs EXCEPT !.dirs = @ \cup ((Ancestors(names) \cup { names }) \ { << >> }) ])

\* Path.write_text on a place whose parent directory must exist
WriteAt(fs, at) ==
    IF ~at.inside
    THEN Did("ok", << FileOp("write", at) >>, [ fs EXCEPT !.outside = @ \cup { at.names } ])
    ELSE IF IsDir(fs, at.names) \/ ~IsDir(fs, SubSeq(at.names, 1, Len(at.names) - 1))
    THEN Did("OSError", << >>, fs)
    ELSE Did("ok", << FileOp("write", at) >>, [ fs EXCEPT !.files = @ \cup { at.names } ])

\* params.get(key, default) as text
ParamText(params, key, default) == IF key \in DOMAIN params THEN StrOf(params[key]) ELSE default

\* _adapter_write_file writing in a dry run too
adapter_write_file_in_dry_run(params, dry_run, fs) ==
    LET raw_path == ParamText(params, S_path, << >>)
        r == resolve_artifact_path(raw_path)
        made == MakeDirs(fs, SubSeq(r.at.names, 1, Len(r.at.names) - 1))
        written == WriteAt(made.fs, r.at)
    IN  IF raw_path = << >> THEN Did("write_file requires param 'path'", << >>, fs)
        ELSE IF r.err # "ok" THEN Did(r.err, << >>, fs)
        ELSE IF made.outcome # "ok" THEN made
        ELSE Did(written.outcome, made.ops \o written.ops, written.fs)

\* _adapter_write_file
adapter_write_file(params, dry_run, fs) ==
    LET raw_path == ParamText(params, S_path, << >>)
        r == resolve_artifact_path(raw_path)
        made == MakeDirs(fs, SubSeq(r.at.names, 1, Len(r.at.names) - 1))
        written == WriteAt(made.fs, r.at)
    IN  IF raw_path = << >> THEN Did("write_file requires param 'path'", << >>, fs)
        ELSE IF r.err # "ok" THEN Did(r.err, << >>, fs)
        ELSE IF dry_run THEN Did("ok", << >>, fs)
        ELSE IF made.outcome # "ok" THEN made
        ELSE Did(written.outcome, made.ops \o written.ops, written.fs)

\* _adapter_read_file
adapter_read_file(params, fs) ==
    LET raw_path == ParamText(params, S_path, << >>)
        r == resolve_artifact_path(raw_path)
    IN  IF raw_path = << >> THEN Did("read_file requires param 'path'", << >>, fs)
        ELSE IF r.err # "ok" THEN Did(r.err, << >>, fs)
        ELSE IF r.at.names \notin fs.files
        THEN Did("read_file path does not exist or is not a file", << >>, fs)
        ELSE Did("ok", << FileOp("read", r.at) >>, fs)

\* _adapter_mkdir
adapter_mkdir(params, dry_run, fs) ==
    LET raw_path == ParamText(params, S_path, << >>)
        r == resolve_artifact_path(raw_path)
    IN  IF raw_path = << >> THEN Did("mkdir requires param 'path'", << >>, fs)
        ELSE IF r.err # "ok" THEN Did(r.err, << >>, fs)
        ELSE IF dry_run THEN Did("ok", << >>, fs)
        ELSE MakeDirs(fs, r.at.names)

\* _adapter_list_dir
adapter_list_dir(params, fs) ==
    LET raw_path == ParamText(params, S_path, << "." >>)
        r == resolve_artifact_path(raw_path)
    IN  IF r.err # "ok" THEN Did(r.err, << >>, fs)
        ELSE IF ~IsDir(fs, r.at.names)
        THEN Did("list_dir path does not exist or is not a directory", << >>, fs)
        ELSE Did("ok", << FileOp("list", r.at) >>, fs)

\* int(value) succeeds: a number, or a string that int() reads
IntReadable(value) ==
    \/ value.t \in { "int", "bool", "float" }
    \/ value.t = "str" /\ IsIntLiteral(Strip(value.v))

\* int(value) of such a value
IntOf(value) ==
    IF value.t = "int" THEN value.v
    ELSE IF value.t = "bool" THEN (IF value.v THEN 1 ELSE 0)
    ELSE IF value.t = "float" THEN (IF value.v[1] THEN 0 - value.v[2] ELSE value.v[2])
    ELSE IF Strip(value.v)[1] = "-" THEN 0 - DigitsToNat(Tail(Strip(value.v)))
    ELSE DigitsToNat(Strip(value.v))

\* _as_int raises on the parameter
AsIntFails(params, key) == key \in DOMAIN params /\ params[key].t # "null" /\ ~IntReadable(params[key])

\* format(n, "0<width>d")
RECURSIVE ZeroPad(_, _)
ZeroPad(digits, width) == IF Len(digits) >= width THEN digits ELSE ZeroPad(<< "0" >> \o digits, width)

ZeroPadInt(n, width) == IF n < 0 THEN << "-" >> \o ZeroPad(NatToStr(0 - n), width - 1) ELSE ZeroPad(NatToStr(n), width)

\* The file name of image idx of a step
ImageName(step_value, idx, seed_suffix) ==
    S_a1111_txt2img \o << "_" >> \o ZeroPadInt(step_value, 4) \o << "_" >> \o ZeroPadInt(idx, 2)
      \o << "_", "s", "e", "e", "d" >> \o seed_suffix \o S_png

\* The loop of _adapter_a1111_txt2img over the images of the response
RECURSIVE WriteImages(_, _, _, _, _)
WriteImages(idx, images, step_value, seed_suffix, did) ==
    IF idx > images THEN did
    ELSE LET r == resolve_artifact_path(ImageName(step_value, idx, seed_suffix))
             written == WriteAt(did.fs, r.at)
         IN  IF r.err # "ok" THEN Did(r.err, did.ops, did.fs)
             ELSE IF written.outcome # "ok" THEN Did(written.outcome, did.ops, did.fs)
             ELSE WriteImages(idx + 1, images, step_value, seed_suffix,
                              Did("ok", did.ops \o written.ops, written.fs))

\* The integer parameters read before the request is made
A1111IntParams == { S_seed, << "w", "i", "d", "t", "h" >>, << "h", "e", "i", "g", "h", "t" >>, << "s", "t", "e", "p", "s" >> }

\* _adapter_a1111_txt2img (without a timeout parameter); images is the
\* number of images the server answers with, -1 when the request fails
adapter_a1111_txt2img(params, dry_run, step_index, images, fs) ==
    IF \E key \in A1111IntParams : AsIntFails(params, key)
    THEN Did("a1111_txt2img param must be an integer", << >>, fs)
    ELSE IF S_n \in DOMAIN params /\ AsIntFails(params, S_n)
    THEN Did("a1111_txt2img param must be an integer", << >>, fs)
    ELSE IF S_n \in DOMAIN params /\ (params[S_n].t = "null" \/ IntOf(params[S_n]) < 1)
    THEN Did("a1111_txt2img param 'n' must be an integer >= 1", << >>, fs)
    ELSE IF dry_run THEN Did("ok", << >>, fs)
    ELSE IF images < 0 THEN Did("a1111_txt2img request failed", << >>, fs)
    ELSE IF AsIntFails(params, S_step) THEN Did("a1111_txt2img param must be an integer", << >>, fs)
    ELSE WriteImages(1, images,
                     IF S_step \in DOMAIN params /\ params[S_step].t # "null" THEN IntOf(params[S_step]) ELSE step_index,
                     IF S_seed \notin DOMAIN params \/ params[S_seed].t = "null" \/ IntOf(params[S_seed]) = -1
                     THEN << "x" >> ELSE IntToStr(IntOf(params[S_seed])),
                     Did("ok", << >>, fs))

BUILTIN_ADAPTERS ==
    { << "e", "c", "h", "o" >>, << "l", "i", "s", "t", "_", "d", "i", "r" >>, << "m", "k", "d", "i", "r" >>,
      << "r", "e", "a", "d", "_", "f", "i", "l", "e" >>, << "w", "r", "i", "t", "e", "_", "f", "i", "l", "e" >>,
      << "o", "l", "l", "a", "m", "a" >>, << "o", "l", "l", "a", "m", "a", "_", "c", "h", "a", "t" >>,
      << "a", "1", "1", "1", "1", "_", "t", "x", "t", "2", "i", "m", "g" >> }

\* run_adapter: the adapter of the name, or the unknown-adapter RunError
\* (echo and the ollama adapters touch no file)
run_adapter(tool_name, params, dry_run, step_index, images, fs) ==
    IF tool_name \notin BUILTIN_ADAPTERS THEN Did("unknown tool adapter", << >>, fs)
    ELSE IF tool_name = S_write_file THEN adapter_write_file(params, dry_run, fs)
    ELSE IF tool_name = S_read_file THEN adapter_read_file(params, fs)
    ELSE IF tool_name = S_mkdir THEN adapter_mkdir(params, dry_run, fs)
    ELSE IF tool_name = S_list_dir THEN adapter_list_dir(params, fs)
    ELSE IF tool_name = S_a1111_txt2img THEN adapter_a1111_txt2img(params, dry_run, step_index, images, fs)
    ELSE Did("ok", << >>, fs)

(***************************************************************************)
(* runner.py                                                               *)
(***************************************************************************)

MaxRuns == 2

S_toolcall == << "t", "o", "o", "l", "c", "a", "l", "l" >>

S_tool == << "t", "o", "o", "l" >>

S_name == << "n", "a", "m", "e" >>

S_id == << "i", "d" >>

S_skip == << "_", "_", "s", "k", "i", "p", "_", "_" >>

S_runner == << "_", "r", "u", "n", "n", "e", "r" >>

\* The names of BUILTIN_ADAPTERS
\* _INTERPOLATION_RE over a string value: the keys of its @key references
InterpolationKeys(value) ==
    { SubSeq(value, i + 1, NamePrefixLen(value, i + 1)) :
        i \in { j \in 1..(Len(value) - 1) : value[j] = "@" /\ IsNameStart(value[j + 1]) } }

\* _interpolate_params: some string parameter refers to a key the state
\* does not hold (the rendered text is not kept: outputs are not modelled)
MissingKeys(params, state) ==
    UNION { InterpolationKeys(params[k].v) \ state.keys : k \in { x \in DOMAIN params : params[x].t = "str" } }

\* bool(value) of a parameter value
Truthy(value) ==
    IF value.t = "str" THEN value.v # << >>
    ELSE IF value.t = "bool" THEN value.v
    ELSE IF value.t = "int" THEN value.v # 0
    ELSE IF value.t = "float" THEN value.v[2] # 0 \/ value.v[3] # << >>
    ELSE FALSE

\* _handle_gen_script_payload: the script text is written to
\* artifacts_dir / (id + ".choom") when the payload has an id
handle_gen_script_payload(params, dry_run, fs) ==
    IF ~(\/ S_text \in DOMAIN params /\ params[S_text].t = "str"
         \/ /\ S_text \notin DOMAIN params
            /\ S_script \in DOMAIN params /\ params[S_script].t = "str")
    THEN Did("gen script requires params.text (or params.script) string output", << >>, fs)
    ELSE IF S_id \in DOMAIN params /\ params[S_id].t = "str" /\ params[S_id].v # << >> /\ ~dry_run
    THEN WriteAt(fs, Locate(params[S_id].v \o S_choom))
    ELSE Did("ok", << >>, fs)

\* _execute_payload: what the step did
execute_payload(payload, dry_run, step_index, images, fs) ==
    IF payload.op = S_gen /\ payload.target = S_script
    THEN handle_gen_script_payload(payload.params, dry_run, fs)
    ELSE IF payload.op # S_toolcall \/ payload.target # S_tool
    THEN Did("runner requires canonical op='toolcall' and target='tool', or 'gen script'", << >>, fs)
    ELSE IF \/ S_name \notin DOMAIN payload.params
            \/ payload.params[S_name].t # "str"
            \/ payload.params[S_name].v = << >>
    THEN Did("runner requires params.name for toolcall adapter selection", << >>, fs)
    ELSE run_adapter(payload.params[S_name].v, payload.params, dry_run, step_index, images, fs)

\* _store_output_if_requested: the state with the output stored under
\* params.id
store_output_if_requested(state, payload) ==
    IF S_id \in DOMAIN payload.params /\ payload.params[S_id].t = "str" /\ payload.params[S_id].v # << >>
    THEN [ state EXCEPT !.keys = @ \cup { payload.params[S_id].v } ]
    ELSE state

\* RunnerState.set_last_successful_step (0 for None)
set_last_successful_step(state, step, line_number) ==
    [ state EXCEPT !.keys = @ \cup { S_runner },
                   !.last_successful_step = step,
                   !.last_successful_line = line_number ]

\* StepResult.to_transcript_record, without the clock and the output
StepRecord(step, dsl, status) == [ step |-> step, dsl |-> dsl, status |-> status ]

\* Only the success records counted
count_success_steps(entries) ==
    Cardinality({ i \in 1..Len(entries) : entries[i].status = "success" })

\* _count_completed_steps
count_completed_steps(entries) ==
    Cardinality({ i \in 1..Len(entries) : entries[i].status \in { "success", "skipped" } })

\* _determine_start_index; resume is None, a bool or an int
determine_start_index(resume, entries) ==
    IF resume.t = "int" THEN resume.v - 1
    ELSE IF resume.t = "null" \/ ~resume.v THEN 0
    ELSE count_completed_steps(entries)

\* rows[start:][:limit] of Python, limit None or an int
SliceRows(rows, start, limit) ==
    LET rest == SubSeq(rows, start + 1, Len(rows)) IN
    IF limit.t = "null" THEN rest
    ELSE SubSeq(rest, 1, IF limit.v < Len(rest) THEN limit.v ELSE Len(rest))

\* Scripts of the repository's tests and of the same shapes
ScriptThreeEchoes ==
    << "t", "o", "o", "l", "c", "a", "l", "l", " ", "t", "o", "o", "l", " ", "n", "a", "m", "e", "=", "e", "c", "h", "o", " ", "i", "d", "=", "o", "n", "e", "\n", "t", "o", "o", "l", "c", "a", "l", "l", " ", "t", "o", "o", "l", " ", "n", "a", "m", "e", "=", "e", "c", "h", "o", " ", "i", "d", "=", "t", "w", "o", "\n", "t", "o", "o", "l", "c", "a", "l", "l", " ", "t", "o", "o", "l", " ", "n", "a", "m", "e", "=", "e", "c", "h", "o", " ", "i", "d", "=", "t", "h", "r", "e", "e", "\n" >>

ScriptChained ==
    << "t", "o", "o", "l", "c", "a", "l", "l", " ", "t", "o", "o", "l", " ", "n", "a", "m", "e", "=", "e", "c", "h", "o", " ", "m", "s", "g", "=", "f", "i", "r", "s", "t", " ", "i", "d", "=", "f", "i", "r", "s", "t", "\n", "t", "o", "o", "l", "c", "a", "l", "l", " ", "t", "o", "o", "l", " ", "n", "a", "m", "e", "=", "e", "c", "h", "o", " ", "m", "s", "g", "=", "@", "f", "i", "r", "s", "t", " ", "i", "d", "=", "s", "e", "c", "o", "n", "d", "\n", "t", "o", "o", "l", "c", "a", "l", "l", " ", "t", "o", "o", "l", " ", "n", "a", "m", "e", "=", "e", "c", "h", "o", " ", "m", "s", "g", "=", "@", "s", "e", "c", "o", "n", "d", " ", "i", "d", "=", "t", "h", "i", "r", "d", "\n" >>

ScriptOneEcho ==
    << "t", "o", "o", "l", "c", "a", "l", "l", " ", "t", "o", "o", "l", " ", "n", "a", "m", "e", "=", "e", "c", "h", "o", "\n" >>

ScriptWithBadLine ==
    << "#", " ", "d", "e", "m", "o", "\n", "c", "a", "l", "l", " ", "t", "o", "o", "l", " ", "n", "a", "m", "e", "=", "e", "c", "h", "o", "\n", "\n", "t", "o", "o", "l", "c", "a", "l", "l", " ", "t", "o", "o", "l", " ", "n", "a", "m", "e", "=", "\n", "t", "o", "o", "l", "c", "a", "l", "l", " ", "t", "o", "o", "l", " ", "n", "a", "m", "e", "=", "e", "c", "h", "o", " ", " ", "#", " ", "l", "a", "s", "t", "\n" >>

ScriptWithUnknownTool ==
    << "t", "o", "o", "l", "c", "a", "l", "l", " ", "t", "o", "o", "l", " ", "n", "a", "m", "e", "=", "e", "c", "h", "o", " ", "_", "_", "s", "k", "i", "p", "_", "_", "=", "l", "a", "t", "e", "r", "\n", "t", "o", "o", "l", "c", "a", "l", "l", " ", "t", "o", "o", "l", " ", "n", "a", "m", "e", "=", "u", "n", "k", "n", "o", "w", "n", "\n", "g", "e", "n", " ", "s", "c", "r", "i", "p", "t", " ", "t", "e", "x", "t", "=", "\"", "p", "i", "n", "g", " ", "t", "x", "t", "\"", "\n" >>

ScriptWriteThenRead ==
    << "t", "o", "o", "l", "c", "a", "l", "l", " ", "t", "o", "o", "l", " ", "n", "a", "m", "e", "=", "w", "r", "i", "t", "e", "_", "f", "i", "l", "e", " ", "p", "a", "t", "h", "=", "n", "o", "t", "e", "s", "/", "a", ".", "t", "x", "t", " ", "t", "e", "x", "t", "=", "h", "i", " ", "i", "d", "=", "w", "\n", "t", "o", "o", "l", "c", "a", "l", "l", " ", "t", "o", "o", "l", " ", "n", "a", "m", "e", "=", "r", "e", "a", "d", "_", "f", "i", "l", "e", " ", "p", "a", "t", "h", "=", "n", "o", "t", "e", "s", "/", "a", ".", "t", "x", "t", " ", "i", "d", "=", "r", "\n", "t", "o", "o", "l", "c", "a", "l", "l", " ", "t", "o", "o", "l", " ", "n", "a", "m", "e", "=", "l", "i", "s", "t", "_", "d", "i", "r", " ", "p", "a", "t", "h", "=", "n", "o", "t", "e", "s", "\n" >>

ScriptDryRunSkips ==
    << "t", "o", "o", "l", "c", "a", "l", "l", " ", "t", "o", "o", "l", " ", "n", "a", "m", "e", "=", "w", "r", "i", "t", "e", "_", "f", "i", "l", "e", " ", "p", "a", "t", "h", "=", "n", "o", "t", "e", "s", "/", "f", "i", "l", "e", ".", "t", "x", "t", " ", "t", "e", "x", "t", "=", "h", "e", "l", "l", "o", "\n", "t", "o", "o", "l", "c", "a", "l", "l", " ", "t", "o", "o", "l", " ", "n", "a", "m", "e", "=", "r", "e", "a", "d", "_", "f", "i", "l", "e", " ", "p", "a", "t", "h", "=", "@", "m", "i", "s", "s", "i", "n", "g", "\n", "t", "o", "o", "l", "c", "a", "l", "l", " ", "t", "o", "o", "l", " ", "n", "a", "m", "e", "=", "m", "k", "d", "i", "r", " ", "p", "a", "t", "h", "=", "o", "u", "t", "/", "d", "e", "e", "p", "\n" >>

ScriptUnsafePaths ==
    << "t", "o", "o", "l", "c", "a", "l", "l", " ", "t", "o", "o", "l", " ", "n", "a", "m", "e", "=", "w", "r", "i", "t", "e", "_", "f", "i", "l", "e", " ", "p", "a", "t", "h", "=", ".", ".", "/", "x", " ", "t", "e", "x", "t", "=", "u", "n", "s", "a", "f", "e", "\n", "t", "o", "o", "l", "c", "a", "l", "l", " ", "t", "o", "o", "l", " ", "n", "a", "m", "e", "=", "r", "e", "a", "d", "_", "f", "i", "l", "e", " ", "p", "a", "t", "h", "=", "/", "e", "t", "c", "/", "p", "a", "s", "s", "w", "d", "\n", "t", "o", "o", "l", "c", "a", "l", "l", " ", "t", "o", "o", "l", " ", "n", "a", "m", "e", "=", "m", "k", "d", "i", "r", " ", "p", "a", "t", "h", "=", "a", "/", ".", ".", "/", ".", ".", "/", "b", "\n" >>

ScriptGenScripts ==
    << "g", "e", "n", " ", "s", "c", "r", "i", "p", "t", " ", "t", "e", "x", "t", "=", "\"", "p", "i", "n", "g", " ", "t", "x", "t", "\"", " ", "i", "d", "=", "p", "i", "n", "g", "e", "r", "\n", "g", "e", "n", " ", "s", "c", "r", "i", "p", "t", " ", "t", "e", "x", "t", "=", "\"", "p", "i", "n", "g", " ", "t", "x", "t", "\"", " ", "i", "d", "=", ".", ".", "/", "e", "s", "c", "a", "p", "e", "d", "\n", "g", "e", "n", " ", "s", "c", "r", "i", "p", "t", " ", "t", "e", "x", "t", "=", "\"", "p", "i", "n", "g", " ", "t", "x", "t", "\"", " ", "i", "d", "=", "/", "t", "m", "p", "/", "e", "s", "c", "a", "p", "e", "d", "\n" >>

ScriptWriteOverDirectory ==
    << "t", "o", "o", "l", "c", "a", "l", "l", " ", "t", "o", "o", "l", " ", "n", "a", "m", "e", "=", "e", "c", "h", "o", " ", "m", "s", "g", "=", "k", "e", "p", "t", " ", "i", "d", "=", "k", "e", "p", "t", "\n", "t", "o", "o", "l", "c", "a", "l", "l", " ", "t", "o", "o", "l", " ", "n", "a", "m", "e", "=", "w", "r", "i", "t", "e", "_", "f", "i", "l", "e", " ", "p", "a", "t", "h", "=", ".", " ", "t", "e", "x", "t", "=", "x", "\n", "t", "o", "o", "l", "c", "a", "l", "l", " ", "t", "o", "o", "l", " ", "n", "a", "m", "e", "=", "e", "c", "h", "o", " ", "m", "s", "g", "=", "a", "f", "t", "e", "r", "\n" >>

ScriptImages ==
    << "t", "o", "o", "l", "c", "a", "l", "l", " ", "t", "o", "o", "l", " ", "n", "a", "m", "e", "=", "a", "1", "1", "1", "1", "_", "t", "x", "t", "2", "i", "m", "g", " ", "p", "r", "o", "m", "p", "t", "=", "c", "a", "t", " ", "s", "e", "e", "d", "=", "7", "\n", "t", "o", "o", "l", "c", "a", "l", "l", " ", "t", "o", "o", "l", " ", "n", "a", "m", "e", "=", "a", "1", "1", "1", "1", "_", "t", "x", "t", "2", "i", "m", "g", " ", "p", "r", "o", "m", "p", "t", "=", "c", "a", "t", " ", "n", "=", "0", "\n" >>

RunnerScripts ==
    { ScriptThreeEchoes, ScriptChained, ScriptOneEcho, ScriptWithBadLine, ScriptWithUnknownTool,
      ScriptWriteThenRead, ScriptDryRunSkips, ScriptUnsafePaths, ScriptGenScripts, ScriptWriteOverDirectory, ScriptImages }

\* iter_script_lines of each script, and parse_dsl of each of their rows,
\* computed once
ScriptRows == [ text \in RunnerScripts |-> iter_script_lines(text) ]

ParsedRows ==
    [ line \in UNION { { ScriptRows[text][i].text : i \in 1..Len(ScriptRows[text]) } : text \in RunnerScripts }
        |-> parse_dsl(line, FALSE) ]

\* _format_script_error: the message names the script file, the line
\* number, the reason and the line
format_script_error(script, line_number, dsl_line, reason) ==
    [ script |-> script, line_number |-> line_number, dsl |-> dsl_line, reason |-> reason ]

\* One pass of run_script's loop over selected[i..]: run is the state, the
\* records appended to the transcript, the steps executed with their file
\* operations, the artifacts directory, "returned" or the error that ends
\* the call ("OSError" leaves run_script through neither except clause),
\* and the message of the RunError raised for a step
RECURSIVE RunLoop(_, _, _, _, _, _)
RunLoop(selected, i, step_index, dry_run, images, run) ==
    IF i > Len(selected) THEN run
    ELSE LET row == selected[i]
             parsed == ParsedRows[row.text]
             did == execute_payload(parsed.val, dry_run, step_index, images, run.fs)
             Stepped(status, ops) == Append(run.steps, [ step |-> step_index, line_number |-> row.line_number, status |-> status, ops |-> ops ])
             Logged(status) == Append(run.records, StepRecord(step_index, row.text, status))
             Failed(reason, ops) == [ run EXCEPT !.records = Logged("error"), !.steps = Stepped("error", ops),
                                            !.outcome = reason,
                                            !.raised = << format_script_error(r_script, row.line_number, row.text, reason) >> ]
         IN  IF ~parsed.ok THEN Failed("parse error", << >>)
             ELSE IF MissingKeys(parsed.val.params, run.state) # {} /\ ~dry_run
             THEN Failed("missing interpolation key(s)", << >>)
             ELSE IF \/ MissingKeys(parsed.val.params, run.state) # {}
                     \/ S_skip \in DOMAIN parsed.val.params /\ Truthy(parsed.val.params[S_skip])
             THEN RunLoop(selected, i + 1, step_index + 1, dry_run, images,
                          [ run EXCEPT !.records = Logged("skipped"), !.steps = Stepped("skipped", << >>) ])
             ELSE IF did.outcome = "OSError"
             THEN [ run EXCEPT !.steps = Stepped("uncaught", did.ops), !.outcome = "OSError", !.fs = did.fs ]
             ELSE IF did.outcome # "ok"
             THEN [ Failed(did.outcome, did.ops) EXCEPT !.fs = did.fs ]
             ELSE RunLoop(selected, i + 1, step_index + 1, dry_run, images,
                          [ run EXCEPT !.state = set_last_successful_step(
                                                   store_output_if_requested(run.state, parsed.val),
                                                   step_index, row.line_number),
                                       !.records = Logged("success"),
                                       !.steps = Stepped("success", did.ops),
                                       !.fs = did.fs ])

\* A call that ran no step
NoSteps(outcome) ==
    [ state |-> r_state, records |-> << >>, steps |-> << >>, fs |-> r_fs,
      outcome |-> outcome, raised |-> << >> ]

\* The record of a call of run_script: start is start_idx (-1 when the call
\* failed before computing it), appended the number of transcript records
\* the call wrote, raised the message of the RunError raised for a step,
\* keys and before the state keys and the artifacts directory when the call
\* began
CallRecord(resume, max_steps, dry_run, start, run) ==
    [ resume |-> resume, max_steps |-> max_steps, dry_run |-> dry_run,
      start |-> start, steps |-> run.steps, outcome |-> run.outcome,
      appended |-> Len(run.records), raised |-> run.raised,
      keys |-> r_state.keys, before |-> r_fs ]

\* The last two calls
Remember(call) == IF Len(r_calls) < 2 THEN Append(r_calls, call) ELSE << r_calls[2], call >>

\* run_script(script_path, resume=..., max_steps=..., dry_run=...) on the
\* run directory
run_script(resume, max_steps, dry_run) ==
    /\ r_count < MaxRuns
    /\ r_count' = r_count + 1
    /\ IF resume.t = "int" /\ resume.v < 1
       THEN /\ r_calls' = Remember(CallRecord(resume, max_steps, dry_run, -1, NoSteps("--resume must be >= 1")))
            /\ UNCHANGED << r_state, r_transcript, r_fs >>
       ELSE IF max_steps.t = "int" /\ max_steps.v < 1
       THEN /\ r_calls' = Remember(CallRecord(resume, max_steps, dry_run, -1, NoSteps("--max-steps must be >= 1")))
            /\ UNCHANGED << r_state, r_transcript, r_fs >>
       ELSE \E script_rows \in { ScriptRows[r_script] } :
            \E start_idx \in { determine_start_index(resume, r_transcript) } :
              IF resume.t = "int" /\ start_idx >= Len(script_rows)
              THEN /\ r_state' = set_last_successful_step(r_state, 0, 0)
                   /\ r_calls' = Remember(CallRecord(resume, max_steps, dry_run, start_idx, NoSteps("--resume out of range")))
                   /\ UNCHANGED << r_transcript, r_fs >>
              ELSE \E run \in { RunLoop(SliceRows(script_rows, start_idx, max_steps), 1, start_idx + 1, dry_run, r_images,
                                        [ state |-> set_last_successful_step(r_state, 0, 0),
                                          records |-> << >>, steps |-> << >>, fs |-> r_fs,
                                          outcome |-> "returned", raised |-> << >> ]) } :
                     /\ r_state' = run.state
                     /\ r_transcript' = r_transcript \o run.records
                     /\ r_fs' = run.fs
                     /\ r_calls' = Remember(CallRecord(resume, max_steps, dry_run, start_idx, run))
    /\ UNCHANGED << r_script, r_images, relayVars, codecVars, d_queries, clientVars, convertVars >>

\* The number of steps of the longest script
MostSteps ==
    CHOOSE n \in { Len(ScriptRows[text]) : text \in RunnerScripts } :
      \A text \in RunnerScripts : Len(ScriptRows[text]) <= n

\* resume: None, True, and step numbers from 0 to one past the longest script
ResumeArgs == { NullV, BoolV(TRUE) } \cup { IntV(n) : n \in { 0 } \cup 2..(MostSteps + 1) }

\* max_steps: None and 0..2
MaxStepsArgs == { NullV } \cup { IntV(n) : n \in 0..(MostSteps - 1) }

\* A run directory written by hand before the first call: state.json
\* {"first":"first"} and a transcript of two success records
SeededState == [ FreshState EXCEPT !.keys = { << "f", "i", "r", "s", "t" >> } ]

SeededTranscript == << StepRecord(1, << >>, "success"), StepRecord(2, << >>, "success") >>

\* The scripts run on the hand-written run directory
SeededScripts == { ScriptThreeEchoes, ScriptChained, ScriptWithUnknownTool }

\* What the image server does: the request fails, or it answers with two
\* images
ImageAnswers == { -1, 2 }

RunnerInit ==
    /\ cfg = CHOOSE c \in Configs : TRUE
    /\ RelayIdle
    /\ CodecIdle
    /\ d_queries = << >>
    /\ ClientIdle
    /\ ConvertIdle
    /\ r_script \in RunnerScripts
    /\ \/ r_state = FreshState /\ r_transcript = << >>
       \/ r_state = SeededState /\ r_transcript = SeededTranscript /\ r_script \in SeededScripts
    /\ r_calls = << >>
    /\ r_count = 0
    /\ r_fs = EmptyDir
    /\ r_images \in (IF r_script = ScriptImages THEN ImageAnswers ELSE { 0 })

RunnerNext ==
    \E resume \in ResumeArgs, max_steps \in MaxStepsArgs, dry_run \in BOOLEAN :
      run_script(resume, max_steps, dry_run)

RunnerSpec == RunnerInit /\ [][RunnerNext]_vars

(***************************************************************************)
(* protocol.py: script conversion                                          *)
(***************************************************************************)

MaxConversions == 2

\* _dump_json(parse_dsl(line).to_json_dict())
dump_json_line(line) ==
    CHOOSE dumped \in { IF parsed.ok THEN Ok(JsonDumps(parsed.val)) ELSE parsed :
                        parsed \in { parse_dsl(line, FALSE) } } : TRUE

\* The loop reporting the position of the row among the command rows
\* instead of its line number
RECURSIVE ConvertRowsByPosition(_, _, _, _, _)
ConvertRowsByPosition(rows, i, as_json, fail_fast, result) ==
    IF i > Len(rows) THEN result
    ELSE CHOOSE out \in
           { IF converted.ok
             THEN ConvertRowsByPosition(rows, i + 1, as_json, fail_fast,
                                        [ result EXCEPT !.outputs = Append(@, converted.val) ])
             ELSE IF fail_fast
             THEN [ result EXCEPT !.errors = Append(@, [ line_number |-> i, err |-> converted.err ]) ]
             ELSE ConvertRowsByPosition(rows, i + 1, as_json, fail_fast,
                                        [ result EXCEPT !.errors = Append(@, [ line_number |-> i, err |-> converted.err ]) ]) :
             converted \in { IF as_json THEN dump_json_line(rows[i].text)
                             ELSE format_dsl(rows[i].text, FALSE) } } : TRUE

\* The loop of script_to_jsonl (as_json) and of script_to_dsl over
\* rows[i..]: result is the (outputs, errors) pair so far
RECURSIVE ConvertRows(_, _, _, _, _)
ConvertRows(rows, i, as_json, fail_fast, result) ==
    IF i > Len(rows) THEN result
    ELSE CHOOSE out \in
           { IF converted.ok
             THEN ConvertRows(rows, i + 1, as_json, fail_fast,
                              [ result EXCEPT !.outputs = Append(@, converted.val) ])
             ELSE IF fail_fast
             THEN [ result EXCEPT !.errors = Append(@, [ line_number |-> rows[i].line_number, err |-> converted.err ]) ]
             ELSE ConvertRows(rows, i + 1, as_json, fail_fast,
                              [ result EXCEPT !.errors = Append(@, [ line_number |-> rows[i].line_number, err |-> converted.err ]) ]) :
             converted \in { IF as_json THEN dump_json_line(rows[i].text)
                             ELSE format_dsl(rows[i].text, FALSE) } } : TRUE

script_to_jsonl(text, fail_fast) ==
    CHOOSE result \in { ConvertRows(rows, 1, TRUE, fail_fast, [ outputs |-> << >>, errors |-> << >> ]) :
                        rows \in { iter_script_lines(text) } } : TRUE

script_to_dsl(text, fail_fast) ==
    CHOOSE result \in { ConvertRows(rows, 1, FALSE, fail_fast, [ outputs |-> << >>, errors |-> << >> ]) :
                        rows \in { iter_script_lines(text) } } : TRUE

\* Script texts: those of the script replies, and texts with several
\* invalid lines between valid ones
ConvertTexts ==
    ScriptTexts \cup
    { << "o", "o", "p", "s", "\n", "g", "e", "n", " ", "t", "x", "t", " ", "k", "=", "1", "\n", "\n", "b", "a", "d", " ", "k", "=", "\n", "p", "i", "n", "g", " ", "t", "x", "t", " ", "#", " ", "c", "\n" >>,
      << "g", "e", "n", " ", "t", "x", "t", " ", "k", "=", "1", " ", ".", "\n", "p", "i", "n", "g", "\n", "#", " ", "c", "\n", "p", "i", "n", "g", " ", "t", "x", "t", "\n" >>,
      << "g", "e", "n", " ", "t", "x", "t", " ", "k", "=", "1", "\n", "o", "o", "p", "s", "\n", "\n", "p", "i", "n", "g", " ", "t", "x", "t", " ", "#", " ", "c", "\n", "b", "a", "d", " ", "k", "=", "\n" >> }

ConvertInit ==
    /\ cfg = CHOOSE c \in Configs : TRUE
    /\ RelayIdle
    /\ CodecIdle
    /\ d_queries = << >>
    /\ ClientIdle
    /\ RunnerIdle
    /\ v_text \in ConvertTexts
    /\ v_calls = << >>

ToJsonl(fail_fast) ==
    /\ Len(v_calls) < MaxConversions
    /\ \E result \in { script_to_jsonl(v_text, fail_fast) } :
         v_calls' = Append(v_calls, [ as_json |-> TRUE, fail_fast |-> fail_fast,
                                      outputs |-> result.outputs, errors |-> result.errors ])
    /\ UNCHANGED << v_text, relayVars, codecVars, d_queries, clientVars, runnerVars >>

ToDsl(fail_fast) ==
    /\ Len(v_calls) < MaxConversions
    /\ \E result \in { script_to_dsl(v_text, fail_fast) } :
         v_calls' = Append(v_calls, [ as_json |-> FALSE, fail_fast |-> fail_fast,
                                      outputs |-> result.outputs, errors |-> result.errors ])
    /\ UNCHANGED << v_text, relayVars, codecVars, d_queries, clientVars, runnerVars >>

ConvertNext ==
    \/ \E fail_fast \in BOOLEAN : ToJsonl(fail_fast)
    \/ \E fail_fast \in BOOLEAN : ToDsl(fail_fast)

ConvertSpec == ConvertInit /\ [][ConvertNext]_vars

(***************************************************************************)
(* Properties                                                              *)
(***************************************************************************)

\* The transport calls of the turn with request id rid, in order
TurnCalls(rid) == SelectSeq(calls, LAMBDA c : c.rid = rid)

\* The transcript records of the turn with request id rid
TurnRecords(rid) == SelectSeq(records, LAMBDA r : r.request_id = rid)

\* The turn with request id rid has ended with an exception
TurnFailed(rid) == pc = "failed" /\ request_id = rid

\* The call returned a reply that decodes to a valid record
StructOk(call) ==
    LET r == chat_once(call.out) IN
    r.ok /\ parse_structured_reply(r.raw, ~cfg.allow_unknown_op, ~cfg.allow_unknown_target).ok

\* The error of a call that did not return a valid record
StructErr(call) ==
    LET r == chat_once(call.out) IN
    IF r.ok
    THEN parse_structured_reply(r.raw, ~cfg.allow_unknown_op, ~cfg.allow_unknown_target).err
    ELSE r.err

\* The call returned a line, and whether the line parses
LineReturned(call) == chat_once(call.out).ok

LineOk(call) ==
    LET r == chat_once(call.out) IN
    r.ok /\ dsl_to_json_with_options(r.raw.text, cfg.lenient).ok

\* The first two calls of a structured turn with the schema stage on: the
\* schema-constrained call and the format=json call
SchemaFailed(cs) == Len(cs) >= 1 /\ ~StructOk(cs[1])

JsonReturned(cs) == Len(cs) >= 2

KindsOf(cs) == { cs[i].prompt.kind : i \in 1..Len(cs) }

\* C1: round trip - for every accepted line L,
\* parse_dsl(serialize_dsl(parse_dsl(L))) equals parse_dsl(L): same
\* operation, target and count and the same parameter map, every value with
\* its type and content.
RoundTripIdentity ==
    (c_pc = "reparsed" /\ c_reply = NoText) => (c_second.ok /\ c_second.val = c_first.val)

\* C2: structured turn, schema stage on, fallback enabled - when the
\* schema-constrained call does not give a valid record and the format=json call
\* that follows does, the turn is accepted with stage structured-json, a retry
\* count of 1 and a fallback reason that carries the schema failure; the turn
\* made these two calls only, none of them a protocol-line call.
SchemaFailJsonAccepted ==
    \A rid \in 1..request_id :
      LET cs == TurnCalls(rid)
          rs == TurnRecords(rid)
      IN  ( /\ cfg.structured /\ cfg.use_schema /\ cfg.fallback_enabled
            /\ SchemaFailed(cs) /\ JsonReturned(cs) /\ StructOk(cs[2]) )
          => /\ Len(cs) = 2
             /\ cs[1].fmt \in { "schema-strict", "schema-permissive" }
             /\ cs[2].fmt = "json"
             /\ KindsOf(cs) = { "structured" }
             /\ ~TurnFailed(rid)
             /\ Len(rs) = 1
             /\ rs[1].stage = "structured-json"
             /\ rs[1].retry = 1
             /\ rs[1].fallback_reason = << "schema-failed:" >> \o StructErr(cs[1]).msg

SchemaFailJsonAcceptedReached ==
    /\ cfg.structured /\ cfg.use_schema /\ cfg.fallback_enabled
    /\ \E rid \in 1..request_id :
         LET cs == TurnCalls(rid) IN
         /\ SchemaFailed(cs) /\ JsonReturned(cs) /\ StructOk(cs[2])
         /\ TurnRecords(rid) # << >>

\* C3: structured turn, strict - when the schema-constrained call and the
\* format=json call both fail, the turn ends with a RelayError of the
\* structured-json stage, nothing is accepted, and no protocol-line call was
\* made: the turn made these two calls only.
StrictBothFailTerminal ==
    \A rid \in 1..request_id :
      LET cs == TurnCalls(rid) IN
          ( /\ cfg.structured /\ cfg.strict
            /\ SchemaFailed(cs) /\ JsonReturned(cs) /\ ~StructOk(cs[2]) )
          => /\ Len(cs) = 2
             /\ KindsOf(cs) = { "structured" }
             /\ TurnFailed(rid)
             /\ failure.type = "RelayError"
             /\ failure.stage = "structured-json"
             /\ TurnRecords(rid) = << >>

StrictBothFailReached ==
    /\ cfg.structured /\ cfg.strict
    /\ \E rid \in 1..request_id :
         LET cs == TurnCalls(rid) IN
         /\ SchemaFailed(cs) /\ JsonReturned(cs) /\ ~StructOk(cs[2])
         /\ TurnFailed(rid)

\* len() of the prompt the protocol-line fallback of the turn builds from the
\* incoming record
FallbackPromptLen(cs) ==
    DslPromptLen(serialize_dsl(cs[1].prompt.incoming_json).val, cs[1].prompt.incoming_json)

\* The protocol-line call of the fallback has been issued: it is in flight or
\* it has returned
FallbackIssued(rid, cs) ==
    \/ Len(cs) = 2 /\ request_id = rid /\ pc = "fallback"
    \/ Len(cs) >= 3 /\ cs[3].prompt.kind = "dsl" /\ cs[3].fmt = "none"

\* The turn was accepted from the fallback with a reason recording both failures
FallbackRecorded(rid, cs) ==
    LET rs == TurnRecords(rid) IN
    /\ Len(cs) = 3
    /\ ~TurnFailed(rid)
    /\ Len(rs) = 1
    /\ rs[1].stage = "fallback-dsl"
    /\ rs[1].dsl = chat_once(cs[3].out).raw.text
    /\ rs[1].fallback_reason =
         << "schema-failed:" >> \o StructErr(cs[1]).msg
            \o << ";json-failed:" >> \o StructErr(cs[2]).msg

BothFailedPermissive(cs) ==
    /\ cfg.structured /\ ~cfg.strict /\ cfg.fallback_enabled
    /\ SchemaFailed(cs) /\ JsonReturned(cs) /\ ~StructOk(cs[2])

\* C4 as stated: structured turn, not strict, fallback enabled - when the schema-constrained call and the format=json call both fail, a
\* protocol-line call is issued, and when it returns a line that parses the
\* turn is accepted with stage fallback-dsl and a reason recording both failures.
FallbackAlwaysIssued ==
    \A rid \in 1..request_id :
      LET cs == TurnCalls(rid) IN
          BothFailedPermissive(cs)
          => /\ FallbackIssued(rid, cs)
             /\ (Len(cs) >= 3 /\ LineOk(cs[3])) => FallbackRecorded(rid, cs)

\* C4, amended: as above unless the protocol-line prompt built from the
\* incoming record is longer than MAX_MESSAGE_CHARS; then no protocol-line call
\* is issued and the turn ends with the message-too-large RelayError.
FallbackIssuedUnlessTooLarge ==
    \A rid \in 1..request_id :
      LET cs == TurnCalls(rid) IN
          BothFailedPermissive(cs)
          => IF FallbackPromptLen(cs) > MAX_MESSAGE_CHARS
             THEN /\ Len(cs) = 2
                  /\ TurnFailed(rid)
                  /\ failure = RelayError(<< "incoming message too large to relay" >>,
                                          0, NoText, "None", "None")
                  /\ TurnRecords(rid) = << >>
             ELSE /\ FallbackIssued(rid, cs)
                  /\ (Len(cs) >= 3 /\ LineOk(cs[3])) => FallbackRecorded(rid, cs)

FallbackAcceptedReached ==
    \E rid \in 1..request_id :
      LET cs == TurnCalls(rid) IN
      /\ BothFailedPermissive(cs)
      /\ Len(cs) = 3 /\ LineOk(cs[3])
      /\ TurnRecords(rid) # << >>

\* The turn ended with the failure of the structured-schema stage after its
\* only call
SchemaStageFailed(rid, cs) ==
    /\ Len(cs) = 1
    /\ TurnFailed(rid)
    /\ failure.type = "RelayError"
    /\ failure.stage = "structured-schema"
    /\ TurnRecords(rid) = << >>

\* C5 as stated: structured turn, fallback disabled - when the
\* schema-constrained call fails the turn ends at once with a RelayError of the
\* structured-schema stage: it is the only call of the turn, so neither the
\* format=json call nor the protocol-line call is issued.
NoFallbackSchemaFailTerminal ==
    \A rid \in 1..request_id :
      LET cs == TurnCalls(rid) IN
          (cfg.structured /\ ~cfg.fallback_enabled /\ SchemaFailed(cs))
          => SchemaStageFailed(rid, cs)

\* C5, amended: as above when use_schema is on; when use_schema is off the
\* turn's only call, constrained by the permissive schema, ends the turn on
\* failure with the error of that call as it is, whose stage is not
\* structured-schema, and again no further call is issued.
NoFallbackSchemaStageTerminal ==
    \A rid \in 1..request_id :
      LET cs == TurnCalls(rid) IN
          (cfg.structured /\ ~cfg.fallback_enabled /\ SchemaFailed(cs))
          => IF cfg.use_schema
             THEN SchemaStageFailed(rid, cs)
             ELSE /\ Len(cs) = 1
                  /\ TurnFailed(rid)
                  /\ failure = StructErr(cs[1])
                  /\ failure.stage # "structured-schema"
                  /\ TurnRecords(rid) = << >>

NoFallbackSchemaFailReached ==
    /\ cfg.structured /\ cfg.use_schema /\ ~cfg.fallback_enabled
    /\ \E rid \in 1..request_id : SchemaFailed(TurnCalls(rid)) /\ TurnFailed(rid)

\* C6 as stated: after a failed JSON attempt the order is strict first, fallback
\* second - with schema_failed and json_failed both true,
\* decide_structured_recovery returns fail-strict whenever strict is requested,
\* fail-no-fallback when strict is not requested and fallback is disabled, and
\* fallback-dsl otherwise.
DecisionStrictFirst ==
    \A i \in 1..Len(d_queries) :
      LET q == d_queries[i] IN
      (q.schema_failed /\ q.json_failed)
      => q.decision = IF q.strict THEN "fail-strict"
                      ELSE IF ~q.fallback_enabled THEN "fail-no-fallback"
                      ELSE "fallback-dsl"

\* C6, amended: the order is fallback first, strict second - with schema_failed
\* and json_failed both true, decide_structured_recovery returns
\* fail-no-fallback whenever fallback is disabled, fail-strict when fallback is
\* enabled and strict is requested, and fallback-dsl otherwise.
DecisionFallbackFirst ==
    \A i \in 1..Len(d_queries) :
      LET q == d_queries[i] IN
      (q.schema_failed /\ q.json_failed)
      => q.decision = IF ~q.fallback_enabled THEN "fail-no-fallback"
                      ELSE IF q.strict THEN "fail-strict"
                      ELSE "fallback-dsl"

DecisionStrictNoFallbackReached ==
    \E i \in 1..Len(d_queries) :
      LET q == d_queries[i] IN
      /\ q.schema_failed /\ q.json_failed /\ q.strict /\ ~q.fallback_enabled
      /\ q.decision = "fail-no-fallback"

\* The first line of a plain-mode turn came back and does not parse
FirstLineInvalid(cs) == Len(cs) >= 1 /\ LineReturned(cs[1]) /\ ~LineOk(cs[1])

\* The correction call has been issued: it is in flight or it has returned
CorrectionIssued(rid, cs) ==
    \/ Len(cs) = 1 /\ request_id = rid /\ pc = "correct"
    \/ Len(cs) = 2

\* The prompt of the correction call embeds the parse error of the first line
\* and the first line
CorrectionEmbeds(cs) ==
    LET first == chat_once(cs[1].out).raw.text IN
    /\ cs[2].prompt.kind = "guard"
    /\ cs[2].prompt.error = dsl_to_json_with_options(first, cfg.lenient).err
    /\ cs[2].prompt.previous = first

\* The corrected line was accepted with retry=1
CorrectedAccepted(rid, cs) ==
    LET rs == TurnRecords(rid) IN
    /\ ~TurnFailed(rid)
    /\ Len(rs) = 1
    /\ rs[1].retry = 1
    /\ rs[1].dsl = chat_once(cs[2].out).raw.text

\* The turn ended with the strict-validation failure
StrictValidationFailed(rid) ==
    /\ TurnFailed(rid)
    /\ failure.type = "RelayError"
    /\ failure.stage = "dsl"
    /\ failure.msg[1] = "model failed strict ChoomLang validation after retry"
    /\ TurnRecords(rid) = << >>

\* C7 as stated: a plain-mode turn calls the transport once; if the line that
\* comes back fails to parse, exactly one correction call is issued, its prompt
\* embedding the parse error and the invalid line, and the turn then accepts
\* the corrected line with retry=1 or ends with the strict-validation failure;
\* there is never a second correction call.
CorrectionAlwaysIssued ==
    \A rid \in 1..request_id :
      LET cs == TurnCalls(rid) IN
          (~cfg.structured /\ Len(cs) >= 1)
          => /\ Len(cs) <= 2
             /\ cs[1].prompt.kind = "dsl"
             /\ IF FirstLineInvalid(cs)
                THEN /\ CorrectionIssued(rid, cs)
                     /\ Len(cs) = 2
                        => /\ CorrectionEmbeds(cs)
                           /\ CorrectedAccepted(rid, cs) \/ StrictValidationFailed(rid)
                ELSE Len(cs) = 1

\* C7, amended: a plain-mode turn calls the transport once; if the line that
\* comes back fails to parse and strict is set, exactly one correction call is
\* issued, its prompt embedding the parse error and the invalid line, and the
\* turn then accepts the corrected line with retry=1, ends with the
\* strict-validation failure when the corrected line does not parse, or ends
\* with the error of the correction call when that call fails; if strict is not
\* set no correction call is issued and the turn ends with the parse error.
\* There is never a second correction call.
CorrectionIssuedWhenStrict ==
    \A rid \in 1..request_id :
      LET cs == TurnCalls(rid) IN
          (~cfg.structured /\ Len(cs) >= 1)
          => /\ Len(cs) <= 2
             /\ cs[1].prompt.kind = "dsl"
             /\ IF FirstLineInvalid(cs) /\ cfg.strict
                THEN /\ CorrectionIssued(rid, cs)
                     /\ Len(cs) = 2
                        => /\ CorrectionEmbeds(cs)
                           /\ IF LineOk(cs[2]) THEN CorrectedAccepted(rid, cs)
                              ELSE IF LineReturned(cs[2]) THEN StrictValidationFailed(rid)
                              ELSE /\ TurnFailed(rid)
                                   /\ failure = chat_once(cs[2].out).err
                ELSE /\ Len(cs) = 1
                     /\ FirstLineInvalid(cs)
                        => /\ TurnFailed(rid)
                           /\ failure.type = "DSLParseError"
                           /\ TurnRecords(rid) = << >>

CorrectedLineAcceptedReached ==
    /\ ~cfg.structured
    /\ \E rid \in 1..request_id :
         LET cs == TurnCalls(rid) IN
         /\ FirstLineInvalid(cs)
         /\ Len(cs) = 2 /\ LineOk(cs[2])
         /\ TurnRecords(rid) # << >>

\* The record the reply of the call decodes to
Decoded(call) ==
    parse_structured_reply(chat_once(call.out).raw, ~cfg.allow_unknown_op,
                           ~cfg.allow_unknown_target).payload

\* The turn decoded a record identical to the record accepted just before it,
\* which is the incoming record of its prompt
RepeatDecoded(cs) ==
    \E j \in 1..Len(cs) :
      /\ cs[j].prompt.kind = "structured"
      /\ StructOk(cs[j])
      /\ Decoded(cs[j]) = cs[j].prompt.incoming_json

\* The calls of the turn whose prompt is the amended one ("Do not repeat the
\* previous line; advance the workflow.")
AmendedCalls(cs) == { k \in 1..Len(cs) : cs[k].prompt.kind = "no-repeat" }

\* The turns of the run that decoded a repeat
RepeatTurns == { rid \in 1..request_id : RepeatDecoded(TurnCalls(rid)) }

\* C8 as stated: no-repeat suppression - a structured turn that decodes a
\* record identical to the record accepted just before it issues exactly one
\* amended re-prompt in the same turn before a result is accepted, and the
\* run's repeats-prevented counter goes up by one for each such repeat.
RepeatSuppressedOnce ==
    /\ \A rid \in 1..request_id :
         LET cs == TurnCalls(rid) IN
         (cfg.structured /\ RepeatDecoded(cs) /\ TurnRecords(rid) # << >>)
         => Cardinality(AmendedCalls(cs)) = 1
    /\ (cfg.structured /\ pc = "done")
       => /\ "repeats_prevented" \in DOMAIN summary
          /\ summary["repeats_prevented"] = Cardinality(RepeatTurns)

\* C9 as stated: with repeat suppression off, a structured turn whose reply
\* decodes to the record accepted just before it accepts the reply as it is,
\* without a further call, and the run reports repeats_prevented=0.
RepeatAllowedReported ==
    /\ \A rid \in 1..request_id :
         LET cs == TurnCalls(rid) IN
         (cfg.structured /\ Len(cs) >= 1 /\ StructOk(cs[1])
            /\ Decoded(cs[1]) = cs[1].prompt.incoming_json)
         => /\ Len(cs) = 1
            /\ TurnRecords(rid) # << >>
    /\ (cfg.structured /\ pc = "done" /\ RepeatTurns # {})
       => /\ "repeats_prevented" \in DOMAIN summary
          /\ summary["repeats_prevented"] = 0

\* The lines of the transcript log written for the turn
TurnLog(rid) == SelectSeq(log, LAMBDA r : r.request_id = rid)

\* Control is back at the turn loop, or has left run_relay
AtTurnLoop == pc \in { "loop", "done", "failed" }

\* C10 as stated: with transcript logging on, every transport attempt of a
\* turn - a failed schema attempt, a failed JSON attempt, a fallback attempt,
\* the accepted result, a terminal failure - has appended exactly one record
\* to the transcript log by the time control is back at the turn loop.
EveryAttemptLogged ==
    (cfg.has_log /\ AtTurnLoop)
    => \A rid \in 1..request_id : Len(TurnLog(rid)) = Len(TurnCalls(rid))

\* The calls of the turn that returned a text, and the text of the last of them
RepliedCalls(cs) == SelectSeq(cs, LAMBDA c : c.out.kind = "reply")

LastRawResponse(cs) ==
    IF RepliedCalls(cs) = << >> THEN NoText
    ELSE RepliedCalls(cs)[Len(RepliedCalls(cs))].out.raw

\* C11 as stated: every failure that ends a turn, in structured mode at any
\* stage and in plain mode, is a RelayError that carries the stage at which it
\* occurred and the last raw response received from the endpoint during the
\* turn; it is never a bare message nor a parse error.
TurnFailureTyped ==
    (pc = "failed" /\ request_id >= 1)
    => /\ failure.type = "RelayError"
       /\ failure.stage # "None"
       /\ failure.raw = LastRawResponse(TurnCalls(request_id))

\* The turn failed with the message-too-large failure
TooLargeFailure ==
    /\ pc = "failed"
    /\ failure = RelayError(<< "incoming message too large to relay" >>, 0, NoText, "None", "None")

\* len() of the first prompt the turn in progress builds from its incoming
\* record
FirstPromptLen ==
    IF cfg.structured THEN StructuredPromptLen(cfg.add_contract, current_json)
    ELSE DslPromptLen(current.text, current_json)

\* A turn is in progress or has just failed
InTurn == request_id >= 1 /\ pc \notin { "loop", "done" }

\* C12: length guard - no transport call carries a structured prompt or a
\* protocol-line prompt longer than MAX_MESSAGE_CHARS (4000); a turn whose
\* structured prompt or plain prompt is longer fails with the message-too-large
\* RelayError without a call, and a turn whose protocol-line fallback prompt is
\* longer fails the same way after its two structured calls, the protocol-line
\* call never issued.
LengthGuardFailsClosed ==
    /\ \A i \in 1..Len(calls) :
         LET q == calls[i].prompt IN
         /\ q.kind = "structured"
              => StructuredPromptLen(q.contract, q.incoming_json) <= MAX_MESSAGE_CHARS
         /\ q.kind = "dsl"
              => DslPromptLen(q.incoming_dsl, q.incoming_json) <= MAX_MESSAGE_CHARS
    /\ (InTurn /\ FirstPromptLen > MAX_MESSAGE_CHARS)
       => /\ TooLargeFailure
          /\ TurnCalls(request_id) = << >>
          /\ TurnRecords(request_id) = << >>
    /\ \A rid \in 1..request_id :
         LET cs == TurnCalls(rid) IN
         (BothFailedPermissive(cs) /\ FallbackPromptLen(cs) > MAX_MESSAGE_CHARS)
         => /\ Len(cs) = 2
            /\ KindsOf(cs) = { "structured" }
            /\ TurnFailed(rid)
            /\ TooLargeFailure

\* The guard has stopped a structured turn before its first call
StructuredGuardTripped ==
    /\ cfg.structured /\ InTurn
    /\ FirstPromptLen > MAX_MESSAGE_CHARS
    /\ TooLargeFailure
    /\ calls = << >>

\* The record the turn with request id rid is given: the record the turn
\* before it accepted, or the validated start
IncomingOf(rid) ==
    IF rid = 1
    THEN dsl_to_json_with_options(IF cfg.start = << >> THEN DefaultStart ELSE cfg.start,
                                  cfg.lenient).val
    ELSE transcript[rid - 1].json

AcceptedPair(incoming, entry) ==
    << [ role |-> "user", content |-> incoming ],
       [ role |-> "assistant",
         content |-> IF cfg.structured THEN JsonDumps(entry.json) ELSE PlainText(entry.dsl) ] >>

\* C14: the two histories are append-only and separate - once created, a
\* step either leaves both histories as they are and accepts nothing, or it
\* accepts one turn and each history becomes what it was followed by exactly
\* one user/assistant pair (the incoming text, the accepted outgoing text):
\* no earlier entry is removed or rewritten, and neither history receives
\* the pair appended to the other on top of its own.
HistoriesAppendOnly ==
    [][ pc # "init"
        => \/ /\ histories' = histories
              /\ transcript' = transcript
           \/ /\ Len(transcript') = Len(transcript) + 1
              /\ \A sp \in { "A", "B" } :
                   histories'[sp]
                     = histories[sp] \o AcceptedPair(current, transcript'[Len(transcript')])
      ]_vars

\* Both turns of a run have been accepted and each history holds their pairs
HistoriesGrew ==
    /\ stepNo = 2
    /\ \A sp \in { "A", "B" } :
         /\ Len(histories[sp]) = Len(new_history(IF cfg.structured THEN "" ELSE "contract:dsl")) + 4
         /\ histories[sp][Len(histories[sp])].role = "assistant"

\* C15: the transcript log is written in request order and never rewritten -
\* a step leaves the log as it is or appends one record to it, the record of
\* the turn in progress, whose request id is above the id of every record
\* logged before and not below the id of any call issued so far; and when a
\* step issues a call with logging on, the record of every turn accepted
\* before is already in the log.
LogAppendOnlyOrdered ==
    [][ /\ \/ log' = log
           \/ /\ Len(log') = Len(log) + 1
              /\ SubSeq(log', 1, Len(log)) = log
              /\ log'[Len(log')].request_id = request_id
              /\ \A i \in 1..Len(log) : log[i].request_id < log'[Len(log')].request_id
              /\ \A i \in 1..Len(calls') : calls'[i].rid <= log'[Len(log')].request_id
        /\ (cfg.has_log /\ Len(calls') > Len(calls))
           => \A i \in 1..Len(records) :
                records[i].request_id < request_id
                => \E j \in 1..Len(log) : log[j] = records[i]
      ]_vars

\* Two records are in the log, the second after a later call than the first
TwoRecordsLogged ==
    /\ cfg.has_log
    /\ Len(log) = 2
    /\ log[1].request_id < log[2].request_id
    /\ \E i \in 1..Len(calls) : calls[i].rid = 2

\* The requests chat has sent to the legacy endpoint
LegacyRequests == SelectSeq(t_requests, LAMBDA q : q.path = S_api_generate)

\* /api/chat answered HTTP 404 and chat is over
ChatOverAfter404 ==
    /\ t_pc \in { "returned", "raised" }
    /\ t_exc # NoError
    /\ t_exc.http_status = 404

\* C16 as stated: when /api/chat answers HTTP 404, chat has sent exactly one
\* request to /api/generate by the time it returns or raises, and when it
\* returns, it returns the text of the /api/generate response.
Chat404ThenLegacy ==
    ChatOverAfter404
    => /\ Len(LegacyRequests) = 1
       /\ LegacyRequests[1].model = t_in.model
       /\ t_result.ok => t_result.text \in { o.text : o \in GenerateOutcomes }

\* C17 as stated: canonicalization is idempotent - for every line L that
\* format_dsl accepts under a lenient flag, format_dsl of the text it gives,
\* under the same flag, succeeds and gives the same text.
FormatIdempotent ==
    (c_pc = "reformatted" /\ c_reply = NoText) => (c_again.ok /\ c_again.val = c_text.val)

\* C18 as stated: the text serialize_dsl emits always parses - for every
\* record it accepts, a record parse_dsl returned or a record accepted from a
\* JSON reply whatever its target and parameter keys, parse_dsl succeeds on
\* the emitted text.
SerializedTextReparses ==
    c_pc \in { "reparsed", "reformatted" } => c_second.ok

\* The alias names of the table, and the operation name a line or a payload
\* gives: the first token of the line, the "op" of the payload
AliasNames == { ALIAS_TO_CANON[i][1] : i \in 1..Len(ALIAS_TO_CANON) }

GivenOp ==
    IF c_reply = NoText THEN tokenize(c_line).val[1] ELSE c_reply.obj["op"].v

\* The operation name resolved once, as the claim's example does it: an alias
\* gives its canonical operation, any other name gives itself
ResolvedOnce(x) ==
    IF x \in AliasNames
    THEN ALIAS_TO_CANON[CHOOSE i \in 1..Len(ALIAS_TO_CANON) : ALIAS_TO_CANON[i][1] = x][2]
    ELSE x

\* s starts with the text p
StartsWith(s, p) == Len(s) >= Len(p) /\ SubSeq(s, 1, Len(p)) = p

\* C19: alias resolution is idempotent and stable - for the operation name x
\* a line or a payload gives, canonicalize_op(x) is the canonical operation
\* of x when x is an alias and x itself when it is not, and resolving the
\* result again changes nothing; the record parse_dsl returns carries the
\* resolved operation, and the line serialize_dsl emits begins with it.
AliasResolutionStable ==
    (c_pc \notin { "idle", "input", "reply" } /\ c_first.ok)
    => /\ canonicalize_op(GivenOp) = ResolvedOnce(GivenOp)
       /\ canonicalize_op(canonicalize_op(GivenOp)) = canonicalize_op(GivenOp)
       /\ GivenOp \in AliasNames => canonicalize_op(GivenOp) \in CANONICAL_OPS
       /\ GivenOp \notin AliasNames => canonicalize_op(GivenOp) = GivenOp
       /\ c_reply = NoText => /\ c_first.val.op = ResolvedOnce(GivenOp)
                              /\ c_first.val.op \notin AliasNames
       /\ (c_pc \notin { "parsed", "given" } /\ c_text.ok)
          => /\ StartsWith(c_text.val, ResolvedOnce(GivenOp) \o << " " >>)
             /\ ResolvedOnce(GivenOp) \notin AliasNames

\* A payload whose operation is an alias has been serialized
AliasPayloadSerialized ==
    /\ c_pc = "serialized"
    /\ c_reply # NoText
    /\ c_first.val.op \in AliasNames
    /\ c_text.ok
    /\ StartsWith(c_text.val, S_plan \o << " " >>)

\* The target token of the line, whether it has a bracket, and the text
\* between its first "[" and its last character
TargetToken == tokenize(c_line).val[2]

HasBracket(tok) == \E i \in 1..Len(tok) : tok[i] = "["

BracketContent(tok) ==
    SubSeq(tok, (CHOOSE i \in 1..Len(tok) : tok[i] = "[" /\ \A j \in 1..(i - 1) : tok[j] # "[") + 1,
           Len(tok) - 1)

\* A positive base-10 integer literal
PositiveLiteral(txt) ==
    /\ txt # << >>
    /\ \A i \in 1..Len(txt) : txt[i] \in { "0", "1", "2", "3", "4", "5", "6", "7", "8", "9" }
    /\ DigitsToNat(txt) >= 1

\* A count-specific error
IsBadCount(err) ==
    err.kind \in { "bad count: expected positive integer", "bad count: expected >= 1" }

\* C20 as stated: count boundary - a target token with a bracket parses only
\* when the bracket content is a positive base-10 integer literal, which is
\* then the count; every other content (0, empty, negative, non-digit) fails
\* with a bad-count error; a target without a bracket gives count 1;
\* serialize_dsl fails with a bad-count error when count < 1 and otherwise
\* writes the bracket after the target exactly when count is not 1.
CountBoundary ==
    /\ (c_pc \notin { "idle", "input" } /\ c_line \in CountLines)
       => IF ~HasBracket(TargetToken)
          THEN c_first.ok /\ c_first.val.count = 1
          ELSE IF PositiveLiteral(BracketContent(TargetToken))
          THEN c_first.ok /\ c_first.val.count = DigitsToNat(BracketContent(TargetToken))
          ELSE ~c_first.ok /\ IsBadCount(c_first.err)
    /\ (c_pc \in { "serialized", "reparsed", "reformatted" })
       => IF c_first.val.count < 1
          THEN ~c_text.ok /\ IsBadCount(c_text.err)
          ELSE /\ c_text.ok
               /\ LET head == canonicalize_op(c_first.val.op) \o << " " >> \o c_first.val.target
                       rest == SubSeq(c_text.val, Len(head) + 1, Len(c_text.val))
                       bracket == << "[" >> \o IntToStr(c_first.val.count) \o << "]" >>
                   IN  /\ StartsWith(c_text.val, head)
                       /\ IF c_first.val.count = 1
                          THEN rest = << >> \/ Head(rest) = " "
                          ELSE StartsWith(rest, bracket)

\* The line with its parameter tokens in the opposite order: the dict
\* parse_dsl builds from it has the opposite insertion order
ReversedParams(line) ==
    LET tk == tokenize(line).val IN
    JoinSpace([ i \in 1..Len(tk) |-> IF i <= 2 THEN tk[i] ELSE tk[Len(tk) + 3 - i] ])

\* The keys of the line's parameter tokens in the order the dict holds them
LineKeys(line) ==
    LET tk == tokenize(line).val IN
    [ i \in 1..(Len(tk) - 2) |-> SubSeq(tk[i + 2], 1, EqPos(tk[i + 2]) - 1) ]

\* The enumeration of a map's keys that ascends strictly: its i-th key is
\* the key that exactly i - 1 keys are less than
AscendingOrders(params) ==
    { ks \in { [ i \in 1..Cardinality(DOMAIN params) |->
                  CHOOSE k \in DOMAIN params :
                    Cardinality({ o \in DOMAIN params : StrLess(o, k) }) = i - 1 ] } :
        \A i \in 1..(Len(ks) - 1) : StrLess(ks[i], ks[i + 1]) }

\* The text ends with a space and the key=value tokens of the keys in the
\* order given
EndsWithTokens(text, params, ks) ==
    LET tail == JoinSpace([ i \in 1..Len(ks) |-> ks[i] \o << "=" >> \o serialize_value(params[ks[i]]) ])
    IN  \/ ks = << >>
        \/ /\ Len(text) > Len(tail)
           /\ SubSeq(text, Len(text) - Len(tail), Len(text)) = << " " >> \o tail

\* C21: serialization is deterministic in the parameter map - the text
\* serialize_dsl emits ends with the key=value tokens in ascending key
\* order, one for each key of the map; and the record parsed from the line
\* with its parameter tokens in the opposite order, when it is the same
\* record, serializes to the same text.
SerializationSorted ==
    (c_pc \in { "serialized", "reparsed", "reformatted" } /\ c_text.ok)
    => /\ \E ks \in AscendingOrders(c_first.val.params) :
            EndsWithTokens(c_text.val, c_first.val.params, ks)
       /\ (c_reply = NoText /\ Len(tokenize(c_line).val) > 2)
          => LET other == parse_dsl(ReversedParams(c_line), FALSE) IN
             (other.ok /\ other.val = c_first.val) => serialize_dsl(other.val) = c_text

\* A line whose keys are given out of order has been serialized
UnsortedLineSerialized ==
    /\ c_pc = "serialized"
    /\ c_reply = NoText
    /\ c_text.ok
    /\ Cardinality(DOMAIN c_first.val.params) = 4
    /\ \E i \in 1..3 : StrLess(LineKeys(c_line)[i + 1], LineKeys(c_line)[i])
    /\ parse_dsl(ReversedParams(c_line), FALSE).val = c_first.val

\* The characters that are escaped, and the text in which every one of them
\* in s is preceded by a backslash and every other character is kept
EscapedChars == { "\\", "\"" }

EscapedBefore(s, i) == Cardinality({ j \in 1..(i - 1) : s[j] \in EscapedChars })

IsEscapeOf(e, s) ==
    /\ Len(e) = Len(s) + EscapedBefore(s, Len(s) + 1)
    /\ \A i \in 1..Len(s) :
         LET at == i + EscapedBefore(s, i) IN
         IF s[i] \in EscapedChars THEN e[at] = "\\" /\ e[at + 1] = s[i] ELSE e[at] = s[i]

\* The string is empty or contains whitespace, a double quote or '='
MustBeQuoted(s) ==
    \/ s = << >>
    \/ \E i \in 1..Len(s) : s[i] \in { " ", "\t", "\n", "\"", "=" }

\* No key of the map has a character that changes how the line is split
PlainKeys(params) == \A k \in DOMAIN params : k # << >> /\ ~MustBeQuoted(k)

\* C22: quoting determinism - serialize_dsl writes a string value between
\* double quotes, every backslash and double quote of it escaped, exactly
\* when the value is empty or contains whitespace, a double quote or '=',
\* and writes every other string bare; unescaping the escaped text gives the
\* value back, and so does reading the quoted token and parsing the line
\* it was written in.
QuotingDeterministic ==
    (c_pc \in { "serialized", "reparsed", "reformatted" } /\ c_text.ok)
    => \A k \in DOMAIN c_first.val.params :
         LET value == c_first.val.params[k]
             token == serialize_value(value)
             inner == SubSeq(token, 2, Len(token) - 1)
         IN  value.t = "str"
             => /\ MustBeQuoted(value.v)
                   => /\ Len(token) >= 2
                      /\ token[1] = "\"" /\ token[Len(token)] = "\""
                      /\ IsEscapeOf(inner, value.v)
                      /\ unescape_quoted(inner) = value.v
                      /\ coerce_value(token) = value
                      /\ (c_pc # "serialized" /\ PlainKeys(c_first.val.params))
                         => c_second.ok /\ c_second.val.params[k] = value
                /\ ~MustBeQuoted(value.v) => token = value.v
                /\ unescape_quoted(EscapeStr(value.v)) = value.v

\* A value with a backslash and a double quote has been written quoted and
\* read back
EscapedValueReadBack ==
    /\ c_pc = "reparsed"
    /\ c_reply # NoText
    /\ c_first.ok /\ c_text.ok /\ c_second.ok
    /\ << "k" >> \in DOMAIN c_first.val.params
    /\ c_first.val.params[<< "k" >>] = StrV(<< "\\", "\"" >>)
    /\ c_second.val.params = c_first.val.params

\* The tokens parse_dsl reads the parameters from
ParamTokens ==
    LET tk == tokenize(c_line).val
        tokens == IF c_lenient THEN strip_trailing_punctuation_token(tk) ELSE tk
    IN  SubSeq(tokens, 3, Len(tokens))

RawOf(token) == SubSeq(token, EqPos(token) + 1, Len(token))

KeyOf(token) == SubSeq(token, 1, EqPos(token) - 1)

\* The shapes of a raw value
WrappedInQuotes(raw) == Len(raw) >= 2 /\ raw[1] = "\"" /\ raw[Len(raw)] = "\""

SpellsWord(raw, word) ==
    /\ Len(raw) = Len(word)
    /\ \A i \in 1..Len(raw) : LowerChar(raw[i]) = word[i]

Unsigned(raw) == IF raw # << >> /\ raw[1] = "-" THEN Tail(raw) ELSE raw

AllDecimal(s) ==
    s # << >> /\ \A i \in 1..Len(s) : s[i] \in { "0", "1", "2", "3", "4", "5", "6", "7", "8", "9" }

MatchesInteger(raw) == AllDecimal(Unsigned(raw))

MatchesDecimal(raw) ==
    \E d \in 1..Len(Unsigned(raw)) :
      /\ Unsigned(raw)[d] = "."
      /\ AllDecimal(SubSeq(Unsigned(raw), 1, d - 1))
      /\ AllDecimal(SubSeq(Unsigned(raw), d + 1, Len(Unsigned(raw))))

\* The value the priority order gives a raw value
ByPriority(raw) ==
    IF WrappedInQuotes(raw) THEN StrV(unescape_quoted(SubSeq(raw, 2, Len(raw) - 1)))
    ELSE IF SpellsWord(raw, << "t", "r", "u", "e" >>) THEN BoolV(TRUE)
    ELSE IF SpellsWord(raw, << "f", "a", "l", "s", "e" >>) THEN BoolV(FALSE)
    ELSE IF MatchesInteger(raw)
    THEN IntV((IF raw[1] = "-" THEN 0 - 1 ELSE 1) * DigitsToNat(Unsigned(raw)))
    ELSE IF MatchesDecimal(raw) THEN ParseFloat(raw)
    ELSE StrV(raw)

\* C23: value coercion applies the priority order to every parameter value
\* of a line that parses - a value wrapped in double quotes is the unescaped
\* string, never a number or a boolean; otherwise true/false in any case is
\* a boolean; otherwise -?[0-9]+ is an integer; otherwise -?[0-9]+\.[0-9]+
\* is a float; otherwise the raw text is kept as a string.
CoercionPriority ==
    (c_pc \notin { "idle", "input" } /\ c_reply = NoText /\ c_first.ok)
    => \A i \in 1..Len(ParamTokens) :
         LET raw == RawOf(ParamTokens[i])
             key == KeyOf(ParamTokens[i])
         IN  /\ coerce_value(raw) = ByPriority(raw)
             /\ WrappedInQuotes(raw) => coerce_value(raw).t = "str"
             /\ (\A j \in (i + 1)..Len(ParamTokens) : KeyOf(ParamTokens[j]) # key)
                => c_first.val.params[key] = ByPriority(raw)

\* A line with values of every shape has been parsed: quoted digits are a
\* string, True and fAlSe booleans, -1.5 a float, -0 an integer, and -, .5,
\* 5. and 1.2.3 strings
EveryShapeCoerced ==
    /\ c_pc = "parsed"
    /\ c_reply = NoText
    /\ c_first.ok
    /\ Cardinality(DOMAIN c_first.val.params) = 9
    /\ c_first.val.params[<< "a" >>] = BoolV(TRUE)
    /\ c_first.val.params[<< "b" >>].t = "float"
    /\ c_first.val.params[<< "c" >>] = StrV(<< "-" >>)
    /\ c_first.val.params[<< "d" >>].t = "str"
    /\ c_first.val.params[<< "e" >>] = StrV(<< "-", "7" >>)
    /\ c_first.val.params[<< "f" >>] = BoolV(FALSE)
    /\ c_first.val.params[<< "g" >>].t = "str"
    /\ c_first.val.params[<< "h" >>].t = "str"
    /\ c_first.val.params[<< "i" >>] = IntV(0)

\* The sequence ends in a standalone punctuation token
EndsInPunctuation(tokens) ==
    tokens # << >> /\ tokens[Len(tokens)] \in { << "." >>, << "," >>, << ";" >> }

\* The sequence without its last token
WithoutLast(tokens) == SubSeq(tokens, 1, Len(tokens) - 1)

\* C24: lenient mode strips at most one trailing standalone punctuation
\* token and changes nothing else - a line the lexer refuses fails the same
\* way under both flags; for tokens not ending in '.', ',' or ';' the
\* lenient and the non-lenient parse are the same result or the same
\* failure; for tokens ending in one, the lenient parse is the non-lenient
\* parse of the tokens without the last (the header failure when none is
\* left); and when the token before the last is punctuation too, the lenient
\* parse fails.
LenientStripsOne ==
    (c_pc \notin { "idle", "input" } /\ c_reply = NoText)
    => LET tk == tokenize(c_line) IN
       IF ~tk.ok THEN c_first = tk
       ELSE IF ~EndsInPunctuation(tk.val)
       THEN /\ c_first = parse_dsl(c_line, FALSE)
            /\ c_first = parse_dsl(c_line, TRUE)
       ELSE /\ c_lenient
               => /\ Len(tk.val) > 1 => c_first = parse_dsl(JoinSpace(WithoutLast(tk.val)), FALSE)
                  /\ Len(tk.val) = 1
                     => c_first = Err("invalid header: expected '<op> <target>[count] ...'", << >>)
                  /\ EndsInPunctuation(WithoutLast(tk.val)) => ~c_first.ok
            /\ ~c_lenient => c_first = parse_dsl(JoinSpace(tk.val), FALSE)

\* "ping txt ." has been parsed leniently: the full stop is gone and the
\* record is the one of "ping txt"
TrailingStopStripped ==
    /\ c_pc = "parsed"
    /\ c_reply = NoText
    /\ c_lenient
    /\ c_first.ok
    /\ tokenize(c_line).val = << << "p", "i", "n", "g" >>, S_txt, << "." >> >>
    /\ c_first.val.op = << "h", "e", "a", "l", "t", "h", "c", "h", "e", "c", "k" >>
    /\ c_first.val.params = EmptyParams

\* The reply is a script reply: its operation resolves to gen and its target
\* is script
IsScriptReply ==
    /\ c_reply \in ScriptReplies
    /\ normalize_op(c_reply.obj["op"].v) = S_gen
    /\ c_reply.obj["target"].v = S_script

\* The reply has been put through parse_structured_reply
Decided == c_pc = "parsed" /\ c_reply # NoText

ReplyParams == c_reply.obj["params"].v

HasStringText == S_text \in DOMAIN ReplyParams /\ ReplyParams[S_text].t = "str"

\* Every line of the text parses with the codec as it stands
EveryLineParses(text) ==
    \A i \in 1..Len(SplitLines(text, << >>)) : parse_dsl(SplitLines(text, << >>)[i], FALSE).ok

\* Every line of the text that has more than blanks before its comment
\* parses with the codec once the comment is removed
EveryCommandLineParses(text) ==
    \A i \in 1..Len(SplitLines(text, << >>)) :
      LET body == Strip(strip_inline_comment(SplitLines(text, << >>)[i])) IN
      body = << >> \/ parse_dsl(body, FALSE).ok

\* C25 as stated: a script reply is accepted only if its parameter map has a
\* string text field, has no prompt field, and every line of the text
\* parses with the codec; a reply in violation fails tagged params.
ScriptRuleEveryLine ==
    (Decided /\ IsScriptReply)
    => /\ c_first.ok
          => /\ HasStringText
             /\ S_prompt \notin DOMAIN ReplyParams
             /\ EveryLineParses(ReplyParams[S_text].v)
       /\ ~c_first.ok => c_first.err.arg[1] = "params"

\* C25: a script reply (operation gen after alias resolution, target
\* script) is accepted exactly when its parameter map has a string text
\* field, has no prompt field, and every line of the text that is not blank
\* and not a comment parses with the codec once its inline comment is
\* removed; a reply in violation fails tagged params, and a reply of
\* another operation or target is not held to the rule.
ScriptRuleCommandLines ==
    /\ (Decided /\ IsScriptReply)
       => /\ c_first.ok
             <=> /\ HasStringText
                 /\ S_prompt \notin DOMAIN ReplyParams
                 /\ EveryCommandLineParses(ReplyParams[S_text].v)
          /\ ~c_first.ok => c_first.err.arg[1] = "params"
    /\ (Decided /\ c_reply \in ScriptReplies /\ ~IsScriptReply) => c_first.ok

\* A script reply under the alias jack, with a two-line text, has been
\* accepted, the operation resolved
TwoLineScriptAccepted ==
    /\ Decided
    /\ IsScriptReply
    /\ c_reply.obj["op"].v = << "j", "a", "c", "k" >>
    /\ c_first.ok
    /\ c_first.val.op = S_gen
    /\ Len(SplitLines(c_first.val.params[S_text].v, << >>)) = 2

\* The fields of the reply that are invalid under the flags: an operation
\* or a target that is not a string or, when the flag is set, not a
\* canonical name (the operation after alias resolution), a count that is
\* not an integer >= 1, parameters that are not an object
ReplyField(key, default) == Get(c_reply.obj, key, default)

InvalidFieldNames ==
    { f \in { "op", "target", "count", "params" } :
        \/ /\ f = "op"
           /\ \/ ReplyField("op", NullV).t # "str"
              \/ c_strict.ops /\ normalize_op(ReplyField("op", NullV).v) \notin CANONICAL_OPS
        \/ /\ f = "target"
           /\ \/ ReplyField("target", NullV).t # "str"
              \/ c_strict.targets /\ ReplyField("target", NullV).v \notin CANONICAL_TARGETS
        \/ /\ f = "count"
           /\ \/ ReplyField("count", IntV(1)).t # "int"
              \/ ReplyField("count", IntV(1)).v < 1
        \/ /\ f = "params"
           /\ ReplyField("params", DictV(EmptyParams)).t # "dict" }

\* C26 as stated: strict validation of a structured record fails exactly
\* when a field is invalid, with a tag that names a field that is invalid;
\* when the operation alone is invalid because it is not a canonical
\* operation after alias resolution, the error names the operation and its
\* suggested fix enumerates the canonical operations; a valid record with an
\* alias operation is accepted, the operation resolved.
FieldTaggedFailure ==
    (Decided /\ ~IsScriptReply)
    => /\ c_first.ok <=> InvalidFieldNames = {}
       /\ ~c_first.ok => c_first.err.arg[1] \in InvalidFieldNames
       /\ (InvalidFieldNames = { "op" } /\ ReplyField("op", NullV).t = "str")
          => /\ Contains(c_first.err.arg[2], Repr(ReplyField("op", NullV)))
             /\ c_first.err.arg[3].advice = "use canonical ops"
             /\ { c_first.err.arg[3].names[i] : i \in 1..Len(c_first.err.arg[3].names) } = CANONICAL_OPS
       /\ (InvalidFieldNames = {} /\ ReplyField("op", NullV).v \in AliasNames)
          => /\ c_first.ok
             /\ c_first.val.op = ResolvedOnce(ReplyField("op", NullV).v)
             /\ c_first.val.op \in CANONICAL_OPS

\* The turn is over: control is back at the turn loop, or a later turn has
\* begun
TurnOver(rid) == rid < request_id \/ AtTurnLoop

\* The fallback stage of the turn ended as the claim says: one protocol-line
\* call after the two structured calls and no guard prompt, the line
\* accepted with stage fallback-dsl if it parses and the turn failed without
\* a transcript record otherwise
FallbackStageRan(rid, cs) ==
    /\ Len(cs) = 3
    /\ cs[3].prompt.kind = "dsl" /\ cs[3].fmt = "none"
    /\ "guard" \notin KindsOf(cs)
    /\ IF LineOk(cs[3])
       THEN FallbackRecorded(rid, cs)
       ELSE TurnFailed(rid) /\ TurnRecords(rid) = << >>

\* C27 as stated: the protocol-line fallback stage, entered when both
\* structured calls of a turn failed, issues exactly one transport call and
\* no correction re-prompt, accepts the returned line if it parses (tagged
\* fallback-dsl), and otherwise ends the turn in failure.
FallbackOneCall ==
    \A rid \in 1..request_id :
      LET cs == TurnCalls(rid) IN
          (BothFailedPermissive(cs) /\ TurnOver(rid)) => FallbackStageRan(rid, cs)

\* C27, amended: as above unless the protocol-line prompt is longer than
\* MAX_MESSAGE_CHARS; then the stage issues no call and the turn ends in
\* failure after the two structured calls. Step by step: the stage is
\* entered only with the caller's strict flag off, after both structured
\* calls of the turn failed; the step taken in the stage issues the one
\* protocol-line call and ends the turn, accepted or failed, never waiting
\* for a correction; and the step that refuses the stage for its prompt's
\* length fails the turn without a record.
FallbackOneCallUnlessTooLarge ==
    [][ /\ pc = "fallback"
           => /\ request_id' = request_id
              /\ Len(TurnCalls(request_id)) = 2
              /\ Len(calls') = Len(calls) + 1
              /\ SubSeq(calls', 1, Len(calls)) = calls
              /\ calls'[Len(calls')].rid = request_id
              /\ calls'[Len(calls')].prompt.kind = "dsl"
              /\ calls'[Len(calls')].fmt = "none"
              /\ IF LineOk(calls'[Len(calls')])
                 THEN /\ pc' \in { "loop", "done" }
                      /\ Len(records') = Len(records) + 1
                      /\ records'[Len(records')].stage = "fallback-dsl"
                      /\ records'[Len(records')].dsl = chat_once(calls'[Len(calls')].out).raw.text
                 ELSE /\ pc' = "failed"
                      /\ records' = records
        /\ (pc # "fallback" /\ pc' = "fallback")
           => /\ pc = "json"
              /\ ~cfg.strict
              /\ request_id' = request_id
              /\ Len(calls') = Len(calls) + 1
              /\ ~StructOk(calls'[Len(calls')])
              /\ DslPromptLen(serialize_dsl(current_json).val, current_json) <= MAX_MESSAGE_CHARS
        /\ (pc = "json" /\ pc' = "failed" /\ ~cfg.strict /\ cfg.fallback_enabled)
           => /\ ~StructOk(calls'[Len(calls')])
              /\ DslPromptLen(serialize_dsl(current_json).val, current_json) > MAX_MESSAGE_CHARS
              /\ records' = records
              /\ failure' = RelayError(<< "incoming message too large to relay" >>,
                                       0, NoText, "None", "None")
      ]_vars

\* A fallback line that does not parse has ended the turn in failure after
\* one protocol-line call
FallbackLineRefused ==
    \E rid \in 1..request_id :
      LET cs == TurnCalls(rid) IN
      /\ BothFailedPermissive(cs)
      /\ Len(cs) = 3
      /\ LineReturned(cs[3]) /\ ~LineOk(cs[3])
      /\ TurnFailed(rid)

\* The number of '=' of the token outside its quoted regions (a region opens
\* at a quote, a backslash inside it escapes the next character, and it closes
\* at the next quote that is not escaped)
RECURSIVE UnescapedEqs(_, _, _, _)
UnescapedEqs(token, i, inq, esc) ==
    IF i > Len(token) THEN 0
    ELSE IF inq
    THEN UnescapedEqs(token, i + 1,
                      IF esc THEN TRUE ELSE IF token[i] = "\\" THEN TRUE ELSE token[i] # "\"",
                      IF esc THEN FALSE ELSE token[i] = "\\")
    ELSE (IF token[i] = "=" THEN 1 ELSE 0) + UnescapedEqs(token, i + 1, token[i] = "\"", FALSE)

\* The token is not key '=' value with exactly one unescaped '=', a key and
\* a value
MalformedToken(token) ==
    \/ UnescapedEqs(token, 1, FALSE, FALSE) # 1
    \/ token[1] = "="
    \/ token[Len(token)] = "="

MalformedKinds ==
    { "malformed kv: missing '=' in token",
      "malformed kv: empty key in token",
      "malformed kv: empty value for key" }

\* The line's header parses: the lexer accepts the line, and the tokens
\* parse_dsl reads have an operation and a target with a good count
HeaderParses ==
    /\ c_pc \notin { "idle", "input" }
    /\ c_reply = NoText
    /\ tokenize(c_line).ok
    /\ LET tk == tokenize(c_line).val
           tokens == IF c_lenient THEN strip_trailing_punctuation_token(tk) ELSE tk
       IN  Len(tokens) >= 2 /\ parse_target_count(tokens[2]).ok

\* C28: when the header parses and some token after the target has no
\* unescaped '=', more than one unescaped '=', an empty key or an empty
\* value, parse_dsl fails with a malformed-parameter error and returns no
\* record; the error for a token without '=' carries that token verbatim.
MalformedParamRefused ==
    (HeaderParses /\ \E i \in 1..Len(ParamTokens) : MalformedToken(ParamTokens[i]))
    => /\ ~c_first.ok
       /\ "val" \notin DOMAIN c_first
       /\ c_first.err.kind \in MalformedKinds
       /\ c_first.err.kind = "malformed kv: missing '=' in token"
          => \E i \in 1..Len(ParamTokens) :
               /\ c_first.err.arg = ParamTokens[i]
               /\ UnescapedEqs(ParamTokens[i], 1, FALSE, FALSE) = 0

\* The same with '=' counted wherever it stands and the token split at its
\* first '=': the failure is exactly this, whatever follows the first '='
FirstEqMalformed(token) ==
    \/ EqPos(token) = 0
    \/ EqPos(token) = 1
    \/ EqPos(token) = Len(token)

MalformedAtFirstEq ==
    HeaderParses
    => LET bad == { i \in 1..Len(ParamTokens) : FirstEqMalformed(ParamTokens[i]) } IN
       IF bad = {} THEN c_first.ok
       ELSE LET first == CHOOSE i \in bad : \A j \in bad : i <= j IN
            /\ ~c_first.ok
            /\ "val" \notin DOMAIN c_first
            /\ c_first.err.kind \in MalformedKinds
            /\ EqPos(ParamTokens[first]) = 0
               => c_first.err = Err("malformed kv: missing '=' in token", ParamTokens[first]).err

\* "gen txt a=a=" has been parsed: a record whose parameter a is "a="
SecondEqAccepted ==
    /\ c_pc = "parsed"
    /\ c_line = LineOfTokens(<< "a", "=", "a", "=" >>)
    /\ c_first.ok
    /\ c_first.val.params[<< "a" >>] = StrV(<< "a", "=" >>)

\* The number of backslashes that stand immediately before position j, after
\* position lo
BackslashRun(s, lo, j) ==
    CHOOSE n \in 0..(j - 1 - lo) :
      /\ \A k \in (j - n)..(j - 1) : s[k] = "\\"
      /\ n = j - 1 - lo \/ s[j - n - 1] # "\\"

\* Where the quoted region opened at o closes: the first quote after o with
\* an even number of backslashes before it; Len(s) + 1 when there is none
CloseOf(s, o) ==
    LET closing == { j \in (o + 1)..Len(s) : s[j] = "\"" /\ BackslashRun(s, o, j) % 2 = 0 }
    IN  IF closing = {} THEN Len(s) + 1
        ELSE CHOOSE j \in closing : \A k \in closing : j <= k

\* The quoted regions of s from position from on, each << opening quote,
\* closing quote >>: a region opens at the first quote outside a region
RECURSIVE QuotedRegions(_, _)
QuotedRegions(s, from) ==
    LET quotes == { i \in from..Len(s) : s[i] = "\"" } IN
    IF quotes = {} THEN {}
    ELSE LET o == CHOOSE i \in quotes : \A k \in quotes : i <= k IN
         { << o, CloseOf(s, o) >> } \cup QuotedRegions(s, CloseOf(s, o) + 1)

\* The input ends while still inside a quoted region
EndsInsideQuote(regions, s) == \E r \in regions : r[2] = Len(s) + 1

\* The positions of the whitespace outside the quoted regions
Separators(regions, s) ==
    { i \in 1..Len(s) : IsSpace(s[i]) /\ ~\E r \in regions : r[1] < i /\ i < r[2] }

\* The pieces of s between the separators, in input order
Pieces(seps, s) ==
    LET starts == { a \in 1..Len(s) : a \notin seps /\ (a = 1 \/ (a - 1) \in seps) }
        EndOf(a) == CHOOSE b \in a..Len(s) :
                      /\ \A k \in a..b : k \notin seps
                      /\ b = Len(s) \/ (b + 1) \in seps
    IN  [ n \in 1..Cardinality(starts) |->
            LET a == CHOOSE x \in starts : Cardinality({ y \in starts : y <= x }) = n
            IN  SubSeq(s, a, EndOf(a)) ]

\* C29: the lexer fails with the empty-input error on empty or
\* whitespace-only input, fails with the unterminated-quote error exactly when
\* the input ends inside a quoted region (a quote after an odd number of
\* backslashes does not close the region), and otherwise returns, in input
\* order, the pieces of the line between the whitespace outside quotes,
\* whitespace and '=' inside quotes included.
LexerContract ==
    (c_pc \notin { "idle", "input" } /\ c_reply = NoText)
    => \E s \in { Strip(c_line) } : \E regions \in { QuotedRegions(s, 1) } :
         IF s = << >>
         THEN /\ tokenize(c_line) = Err("invalid header: empty input", << >>)
              /\ c_first = tokenize(c_line)
         ELSE IF EndsInsideQuote(regions, s)
         THEN /\ tokenize(c_line) = Err("unterminated quote", << >>)
              /\ c_first = tokenize(c_line)
         ELSE /\ tokenize(c_line) = Ok(Pieces(Separators(regions, s), s))
              /\ c_first.ok \/ c_first.err.kind \notin { "invalid header: empty input", "unterminated quote" }

\* 'gen txt k="a\\\"' has been read: the quote after three backslashes is
\* escaped, the region never closes
EscapedQuoteLexed ==
    /\ c_pc = "parsed"
    /\ c_reply = NoText
    /\ c_line = << "g", "e", "n", " ", "t", "x", "t", " ", "k", "=", "\"", "a", "\\", "\\", "\\", "\"" >>
    /\ c_first = Err("unterminated quote", << >>)

\* A line with whitespace and '=' inside quotes has been read
QuotedSpaceKept ==
    /\ c_pc = "parsed"
    /\ c_reply = NoText
    /\ c_line = << " ", " ", "g", "e", "n", " ", " ", "t", "x", "t", "\t", "k", "=", "\"", "a", " ", "=", "\t", "b", "\"", " ", " " >>
    /\ c_first.ok
    /\ c_first.val.params[<< "k" >>] = StrV(<< "a", " ", "=", "\t", "b" >>)

\* The call of run_script that ended last, and the one before it
LastCall == r_calls[Len(r_calls)]

PrevCall == r_calls[Len(r_calls) - 1]

\* The transcript as the last call found it
PriorTranscript == SubSeq(r_transcript, 1, Len(r_transcript) - LastCall.appended)

\* The number of success and skipped records the last call found
CompletedBefore ==
    Cardinality({ i \in 1..Len(PriorTranscript) : PriorTranscript[i].status \in { "success", "skipped" } })

\* The steps the call executed are the script's rows from start + 1 on, one
\* after the other, each numbered by its position in the script
StepsInOrder(call) ==
    \A i \in 1..Len(call.steps) :
      /\ call.start + i <= Len(ScriptRows[r_script])
      /\ call.steps[i].step = call.start + i
      /\ call.steps[i].line_number = ScriptRows[r_script][call.start + i].line_number

\* The call's arguments passed the checks made before the script is read
ArgsAccepted(call) == call.outcome \notin { "--resume must be >= 1", "--max-steps must be >= 1" }

\* resume=True starts at the step after the number of success/skipped
\* records already in the transcript
ResumeStartsAfterCompleted ==
    (r_calls # << >> /\ LastCall.resume = BoolV(TRUE) /\ ArgsAccepted(LastCall))
    => /\ LastCall.start = CompletedBefore
       /\ StepsInOrder(LastCall)
       /\ LastCall.steps # << >> => LastCall.steps[1].step = CompletedBefore + 1

\* resume=N starts at step N, and fails with the out-of-range error when N
\* exceeds the number of steps
ResumeAtStepN ==
    (r_calls # << >> /\ LastCall.resume.t = "int" /\ LastCall.resume.v >= 1 /\ ArgsAccepted(LastCall))
    => IF LastCall.resume.v > Len(ScriptRows[r_script])
       THEN LastCall.outcome = "--resume out of range" /\ LastCall.steps = << >>
       ELSE /\ LastCall.outcome # "--resume out of range"
            /\ LastCall.steps # << >>
            /\ LastCall.steps[1].step = LastCall.resume.v
            /\ StepsInOrder(LastCall)

\* The call ran from step 1, returned, and max_steps kept it from reaching
\* the end of the script
CutShort(call) ==
    /\ call.outcome = "returned"
    /\ call.start = 0
    /\ call.max_steps.t = "int"
    /\ Len(call.steps) = call.max_steps.v
    /\ call.max_steps.v < Len(ScriptRows[r_script])

\* The call was made with resume=True and without max_steps, and returned
Resumed(call) ==
    /\ call.resume = BoolV(TRUE)
    /\ call.max_steps = NullV
    /\ call.outcome = "returned"

\* A run cut short by max_steps followed by a resumed run: the two execute
\* every step of the script exactly once, in script order, the step numbers
\* of the second continuing those of the first
CutShortThenResumed ==
    (Len(r_calls) = 2 /\ CutShort(PrevCall) /\ Resumed(LastCall))
    => /\ Len(PrevCall.steps \o LastCall.steps) = Len(ScriptRows[r_script])
       /\ \A i \in 1..Len(PrevCall.steps \o LastCall.steps) :
            /\ (PrevCall.steps \o LastCall.steps)[i].step = i
            /\ (PrevCall.steps \o LastCall.steps)[i].line_number = ScriptRows[r_script][i].line_number

\* C30: script-run resume - resume=True starts after the success/skipped
\* records already in the transcript, resume=N starts at step N or fails as
\* out of range, and a run cut short by max_steps followed by a resumed run
\* executes every script step exactly once, in script order, with the step
\* numbers continuing.
ScriptResume ==
    /\ ResumeStartsAfterCompleted
    /\ ResumeAtStepN
    /\ CutShortThenResumed

\* The two calls began on a transcript without a success or skipped
\* record: every such record is a step of one of the two
NothingCompletedBefore ==
    Cardinality({ i \in 1..Len(r_transcript) : r_transcript[i].status \in { "success", "skipped" } })
      = Len(PrevCall.steps) + Len(LastCall.steps)

\* C30, amended: resume=True starts after the success/skipped records
\* already in the transcript, resume=N starts at step N or fails as out of
\* range, and - when the transcript held no success or skipped record before
\* it - a run from step 1 cut short by max_steps, followed by a run with
\* resume=True and no max_steps that returns, executes every script step
\* exactly once, in script order, with the step numbers continuing.
ScriptResumeOnFreshTranscript ==
    /\ ResumeStartsAfterCompleted
    /\ ResumeAtStepN
    /\ (Len(r_calls) = 2 /\ CutShort(PrevCall) /\ Resumed(LastCall) /\ NothingCompletedBefore)
       => /\ Len(PrevCall.steps \o LastCall.steps) = Len(ScriptRows[r_script])
          /\ \A i \in 1..Len(PrevCall.steps \o LastCall.steps) :
               /\ (PrevCall.steps \o LastCall.steps)[i].step = i
               /\ (PrevCall.steps \o LastCall.steps)[i].line_number = ScriptRows[r_script][i].line_number

\* Three echo steps, a first run with max_steps=2 and a resumed run that
\* executes step 3 alone
ThirdStepResumed ==
    /\ r_script = ScriptThreeEchoes
    /\ Len(r_calls) = 2
    /\ CutShort(PrevCall) /\ PrevCall.max_steps = IntV(2)
    /\ Resumed(LastCall)
    /\ Len(LastCall.steps) = 1
    /\ LastCall.steps[1].step = 3
    /\ r_transcript[Len(r_transcript)].step = 3

\* The same two runs on a transcript that already held two success records:
\* the resumed run executes nothing
ResumedPastTheEnd ==
    /\ r_script = ScriptThreeEchoes
    /\ Len(r_calls) = 2
    /\ CutShort(PrevCall) /\ PrevCall.max_steps = IntV(2)
    /\ Resumed(LastCall)
    /\ LastCall.start = 4
    /\ LastCall.steps = << >>

\* The payload of a step a call executed
StepPayload(step) == ParsedRows[ScriptRows[r_script][step.step].text]

\* The path the step names: the path parameter of a file adapter, or the
\* file a gen script with an id is written to (<< >> when it names none)
StepPath(payload) ==
    IF payload.op = S_gen /\ payload.target = S_script
    THEN (IF S_id \in DOMAIN payload.params /\ payload.params[S_id].t = "str" /\ payload.params[S_id].v # << >>
          THEN payload.params[S_id].v \o S_choom ELSE << >>)
    ELSE IF payload.op = S_toolcall /\ payload.target = S_tool /\ S_name \in DOMAIN payload.params
            /\ payload.params[S_name] \in { StrV(S_write_file), StrV(S_read_file), StrV(S_mkdir), StrV(S_list_dir) }
    THEN ParamText(payload.params, S_path, << >>)
    ELSE << >>

\* The path is absolute or has a ".." component
UnsafePath(raw) == IsAbsolute(raw) \/ << ".", "." >> \in { PathParts(raw)[i] : i \in 1..Len(PathParts(raw)) }

\* The explicit safety errors
SafetyErrors ==
    { "unsafe artifact path (absolute paths are not allowed)",
      "unsafe artifact path (path traversal is not allowed)",
      "unsafe artifact path (must stay within artifacts)" }

\* The steps of the last call that got as far as _execute_payload
ExecutedSteps ==
    { i \in 1..Len(LastCall.steps) :
        /\ ParsedRows[ScriptRows[r_script][LastCall.steps[i].step].text].ok
        /\ LastCall.steps[i].status \in { "success", "uncaught" }
             \/ (LastCall.steps[i].status = "error" /\ LastCall.outcome # "missing interpolation key(s)") }

\* Every file operation of the step is inside the artifacts directory, and
\* a step that names an unsafe path ends the call with a safety error and
\* without a file operation
StepSandboxed(i) ==
    /\ \A k \in 1..Len(LastCall.steps[i].ops) : LastCall.steps[i].ops[k].at.inside
    /\ UnsafePath(StepPath(StepPayload(LastCall.steps[i]).val))
       => /\ LastCall.steps[i].status = "error"
          /\ LastCall.outcome \in SafetyErrors
          /\ LastCall.steps[i].ops = << >>

\* C31: artifact sandbox - every file or directory a script step creates,
\* writes or reads lies inside the artifacts directory, and a step whose
\* path is absolute or has a ".." component is rejected with a safety error
\* before any file operation, for every step kind (gen script with an id
\* included).
ArtifactSandbox ==
    /\ r_fs.outside = {}
    /\ r_calls # << >> => \A i \in ExecutedSteps : StepSandboxed(i)

\* The step is a toolcall (an adapter runs it)
IsToolcall(i) == StepPayload(LastCall.steps[i]).val.op = S_toolcall

\* The sandbox holds of the steps the adapters run
AdapterSandbox == r_calls # << >> => \A i \in { k \in ExecutedSteps : IsToolcall(k) } : StepSandboxed(i)

\* A write_file step with a ".." path was refused with the traversal error
\* and wrote nothing
TraversalRefused ==
    /\ r_calls # << >>
    /\ \E i \in ExecutedSteps :
         /\ IsToolcall(i)
         /\ UnsafePath(StepPath(StepPayload(LastCall.steps[i]).val))
         /\ LastCall.outcome = "unsafe artifact path (path traversal is not allowed)"
         /\ LastCall.steps[i].ops = << >>

\* A gen script step with an id wrote outside the artifacts directory
GenScriptEscaped ==
    /\ r_calls # << >>
    /\ \E i \in ExecutedSteps :
         /\ ~IsToolcall(i)
         /\ LastCall.steps[i].status = "success"
         /\ \E k \in 1..Len(LastCall.steps[i].ops) : ~LastCall.steps[i].ops[k].at.inside

\* The ids the steps before step i of the last call stored
StoredBefore(i) ==
    { StepPayload(LastCall.steps[j]).val.params[S_id].v :
        j \in { k \in 1..(i - 1) :
                  /\ LastCall.steps[k].status = "success"
                  /\ S_id \in DOMAIN StepPayload(LastCall.steps[k]).val.params
                  /\ StepPayload(LastCall.steps[k]).val.params[S_id].t = "str"
                  /\ StepPayload(LastCall.steps[k]).val.params[S_id].v # << >> } }

\* The keys a string parameter of step i refers to that the state does not
\* hold when the step runs: those that neither the state had when the call
\* began nor an earlier step of the call stored
UnsetKeys(i) ==
    IF ~StepPayload(LastCall.steps[i]).ok THEN {}
    ELSE UNION { InterpolationKeys(StepPayload(LastCall.steps[i]).val.params[k].v) :
                   k \in { x \in DOMAIN StepPayload(LastCall.steps[i]).val.params :
                             StepPayload(LastCall.steps[i]).val.params[x].t = "str" } }
           \ (LastCall.keys \cup { S_runner } \cup StoredBefore(i))

\* The rows the call selected: from start on, at most max_steps of them
SelectedCount(call) ==
    IF call.max_steps.t = "int" /\ call.max_steps.v < Len(ScriptRows[r_script]) - call.start
    THEN call.max_steps.v ELSE Len(ScriptRows[r_script]) - call.start

\* In a dry run a step that refers to an unset key is recorded as skipped
\* and the next selected step runs
DryRunSkipsUnset ==
    (r_calls # << >> /\ LastCall.dry_run)
    => \A i \in 1..Len(LastCall.steps) :
         UnsetKeys(i) # {}
         => /\ LastCall.steps[i].status = "skipped"
            /\ r_transcript[Len(r_transcript) - LastCall.appended + i].status = "skipped"
            /\ r_transcript[Len(r_transcript) - LastCall.appended + i].step = LastCall.steps[i].step
            /\ i < SelectedCount(LastCall) => Len(LastCall.steps) > i

\* Not in a dry run the same step ends the call with the
\* missing-interpolation error
UnsetRaises ==
    (r_calls # << >> /\ ~LastCall.dry_run)
    => \A i \in 1..Len(LastCall.steps) :
         UnsetKeys(i) # {}
         => /\ LastCall.steps[i].status = "error"
            /\ LastCall.outcome = "missing interpolation key(s)"
            /\ i = Len(LastCall.steps)

\* A dry run leaves the artifacts directory as it found it
DryRunWritesNothing ==
    (r_calls # << >> /\ LastCall.dry_run)
    => /\ r_fs = LastCall.before
       /\ \A i \in 1..Len(LastCall.steps) :
            \A k \in 1..Len(LastCall.steps[i].ops) : LastCall.steps[i].ops[k].kind \notin { "write", "mkdir" }

\* C32: dry-run mode - a step whose parameter refers to a state key that is
\* not set is recorded in the transcript as skipped and the run continues
\* with the next step (not in a dry run the same step raises the
\* missing-interpolation error), and a dry run never creates or modifies a
\* file under the artifacts directory.
DryRunMode ==
    /\ DryRunSkipsUnset
    /\ UnsetRaises
    /\ DryRunWritesNothing

\* A dry run in which a write_file step succeeded, the next step was skipped
\* for an unset key, a mkdir step ran after it, and the artifacts directory
\* is still empty
DryRunSkippedAndWent ==
    /\ r_calls # << >>
    /\ LastCall.dry_run
    /\ r_script = ScriptDryRunSkips
    /\ Len(LastCall.steps) = 3
    /\ UnsetKeys(2) # {}
    /\ LastCall.steps[1].status = "success"
    /\ LastCall.steps[2].status = "skipped"
    /\ LastCall.steps[3].status = "success"
    /\ r_fs = EmptyDir

\* The same script not in a dry run: the file is written and the second
\* step raises
UnsetKeyRaised ==
    /\ r_calls # << >>
    /\ ~LastCall.dry_run
    /\ r_script = ScriptDryRunSkips
    /\ Len(LastCall.steps) = 2
    /\ UnsetKeys(2) # {}
    /\ LastCall.outcome = "missing interpolation key(s)"
    /\ r_fs.files # {}

\* The transcript record the last call wrote for its step i
RecordOfStep(i) == r_transcript[Len(r_transcript) - LastCall.appended + i]

\* Step i of the last call failed: run_script left the loop at it
StepFailed(i) == LastCall.steps[i].status \in { "error", "uncaught" }

\* Every executed step has exactly one transcript record, with its step
\* number and line and a status of success, skipped or error
OneRecordPerStep ==
    r_calls # << >>
    => /\ LastCall.appended = Len(LastCall.steps)
       /\ \A i \in 1..Len(LastCall.steps) :
            /\ RecordOfStep(i).step = LastCall.steps[i].step
            /\ RecordOfStep(i).dsl = ScriptRows[r_script][LastCall.steps[i].step].text
            /\ RecordOfStep(i).status = LastCall.steps[i].status
            /\ RecordOfStep(i).status \in { "success", "skipped", "error" }

\* A failed step is the last step of the call, its error record is the last
\* record of the transcript, and the error raised names the script, the
\* line number and the line
FailedStepReported(i) ==
    /\ i = Len(LastCall.steps)
    /\ LastCall.appended >= 1
    /\ r_transcript[Len(r_transcript)] =
         StepRecord(LastCall.steps[i].step, ScriptRows[r_script][LastCall.steps[i].step].text, "error")
    /\ Len(LastCall.raised) = 1
    /\ LastCall.raised[1].script = r_script
    /\ LastCall.raised[1].line_number = ScriptRows[r_script][LastCall.steps[i].step].line_number
    /\ LastCall.raised[1].dsl = ScriptRows[r_script][LastCall.steps[i].step].text

\* The state on disk after the failure holds what the call found and what
\* its earlier success steps stored, and names the last step that succeeded
StatePersisted(i) ==
    /\ LastCall.keys \cup StoredBefore(i) \subseteq r_state.keys
    /\ r_state.last_successful_step =
         (IF \E k \in 1..(i - 1) : LastCall.steps[k].status = "success"
          THEN LastCall.steps[CHOOSE k \in 1..(i - 1) :
                                /\ LastCall.steps[k].status = "success"
                                /\ \A m \in (k + 1)..(i - 1) : LastCall.steps[m].status # "success"].step
          ELSE 0)

\* C33: script-run failure - when a step fails with a parse error or a
\* runtime error, run_script appends exactly one error record for the step
\* as the last transcript record, persists the state, executes no later step
\* and raises an error naming the script file, the line number and the line
\* text; values stored by earlier successful steps are still in the state,
\* and every executed step of a run has exactly one transcript record with
\* status success, skipped or error.
ScriptRunFailure ==
    /\ OneRecordPerStep
    /\ r_calls # << >>
       => \A i \in 1..Len(LastCall.steps) : StepFailed(i) => FailedStepReported(i) /\ StatePersisted(i)

\* The same of the calls in which no step ended in an error other than a
\* parse error or a RunError
ScriptRunFailureWhenCaught ==
    (r_calls # << >> /\ LastCall.outcome # "OSError")
    => /\ LastCall.appended = Len(LastCall.steps)
       /\ \A i \in 1..Len(LastCall.steps) :
            /\ RecordOfStep(i).step = LastCall.steps[i].step
            /\ RecordOfStep(i).status = LastCall.steps[i].status
            /\ RecordOfStep(i).status \in { "success", "skipped", "error" }
            /\ StepFailed(i) => FailedStepReported(i) /\ StatePersisted(i)

\* A step failed with a RunError after a step that stored a value
RunErrorAfterStore ==
    /\ r_calls # << >>
    /\ LastCall.outcome \notin { "returned", "OSError", "parse error" }
    /\ Len(LastCall.steps) >= 2
    /\ StoredBefore(Len(LastCall.steps)) # {}
    /\ StepFailed(Len(LastCall.steps))

\* A step failed with a parse error
ParseErrorStep ==
    /\ r_calls # << >>
    /\ LastCall.outcome = "parse error"
    /\ LastCall.steps # << >>
    /\ StepFailed(Len(LastCall.steps))

\* A write_file step failed with an OSError: the call ended without a
\* record for the step
UncaughtStepUnrecorded ==
    /\ r_calls # << >>
    /\ LastCall.outcome = "OSError"
    /\ LastCall.appended = Len(LastCall.steps) - 1
    /\ LastCall.raised = << >>

\* The positions of the line breaks of the text, and its number of lines
LineBreaks(text) == { i \in 1..Len(text) : text[i] = "\n" }

NumLines(text) ==
    Cardinality(LineBreaks(text)) + (IF text # << >> /\ text[Len(text)] # "\n" THEN 1 ELSE 0)

\* The k-th smallest number of a set of numbers
NthOf(numbers, k) ==
    CHOOSE x \in UNION { { y \in set : Cardinality({ z \in set : z <= y }) = k } :
                         set \in { numbers } } : TRUE

\* Line n of the text (from 1), without its line break
RawLine(text, n) ==
    CHOOSE line \in
      { SubSeq(text,
               IF n = 1 THEN 1 ELSE NthOf(breaks, n - 1) + 1,
               IF n <= Cardinality(breaks) THEN NthOf(breaks, n) - 1 ELSE Len(text)) :
        breaks \in { LineBreaks(text) } } : TRUE

\* The command of line n: the line without its comment and surrounding
\* whitespace
CommandOf(text, n) == Strip(strip_inline_comment(RawLine(text, n)))

\* The lines of the text that hold a command: not blank, not a comment
CommandLineNumbers(text) ==
    { n \in 1..NumLines(text) :
        \E stripped \in { Strip(RawLine(text, n)) } :
          /\ stripped # << >>
          /\ stripped[1] # "#"
          /\ CommandOf(text, n) # << >> }

\* What each conversion makes of each command line of each text, by line
\* number: the JSON object line (as_json) or the canonical line
ConvertedLines ==
    [ text \in ConvertTexts |->
        [ as_json \in BOOLEAN |->
            [ n \in CommandLineNumbers(text) |->
                IF as_json THEN dump_json_line(CommandOf(text, n))
                ELSE format_dsl(CommandOf(text, n), FALSE) ] ] ]

\* The command lines the conversion refuses
InvalidLineNumbers(converted) == { n \in DOMAIN converted : ~converted[n].ok }

\* The command lines a call got to: all of them, or in fail-fast mode those
\* up to the first invalid one
ProcessedLineNumbers(converted, invalid, fail_fast) ==
    IF fail_fast /\ invalid # {}
    THEN { n \in DOMAIN converted : n <= NthOf(invalid, 1) }
    ELSE DOMAIN converted

\* The outputs are those of the valid lines the call got to, in script
\* order, and the errors those of the invalid ones, each with its line number
ConversionReports(call) ==
    \A converted \in { ConvertedLines[v_text][call.as_json] } :
    \A invalid \in { InvalidLineNumbers(converted) } :
    \A processed \in { ProcessedLineNumbers(converted, invalid, call.fail_fast) } :
      /\ Len(call.outputs) = Cardinality(processed \ invalid)
      /\ \A k \in 1..Len(call.outputs) :
           call.outputs[k] = converted[NthOf(processed \ invalid, k)].val
      /\ Len(call.errors) = Cardinality(processed \cap invalid)
      /\ \A k \in 1..Len(call.errors) :
           /\ call.errors[k].line_number = NthOf(processed \cap invalid, k)
           /\ call.errors[k].err = converted[call.errors[k].line_number].err
      /\ (call.fail_fast /\ call.errors # << >>)
         => \A n \in DOMAIN converted :
              n < call.errors[1].line_number => converted[n].ok

\* C34: script conversion (script_to_dsl, script_to_jsonl) - in fail-fast
\* mode processing stops at the first line that fails to parse, reporting
\* exactly that one error and the outputs of the lines before it; in
\* continue mode every remaining line is still processed, the outputs are
\* those of all valid lines in script order and every invalid line is
\* reported with its original 1-based line number.
ScriptConversion ==
    \A c \in 1..Len(v_calls) :
      /\ ConversionReports(v_calls[c])
      /\ v_calls[c].fail_fast => Len(v_calls[c].errors) <= 1

\* The same text converted in both modes: it has a valid line, then an
\* invalid one, then a later valid and a later invalid one; fail-fast
\* reported one error and continue mode more outputs and two errors with
\* the line numbers of the text
BothModesConverted ==
    /\ Len(v_calls) = 2
    /\ v_calls[1].fail_fast /\ ~v_calls[2].fail_fast
    /\ v_calls[1].as_json = v_calls[2].as_json
    /\ Len(v_calls[1].errors) = 1
    /\ Len(v_calls[2].errors) = 2
    /\ v_calls[1].outputs # << >>
    /\ Len(v_calls[2].outputs) > Len(v_calls[1].outputs)
    /\ v_calls[2].errors[1].line_number # 1
    /\ v_calls[2].errors[2].line_number > v_calls[2].errors[1].line_number + 1

\* The turn with request id rid is over: a later turn began, or run_relay
\* is between turns, has returned or has raised
TurnEnded(rid) == rid < request_id \/ pc \in { "loop", "done", "failed" }

\* The turn was accepted at the stage, after n calls
AcceptedAt(rid, cs, stage, n) ==
    /\ Len(cs) = n
    /\ ~TurnFailed(rid)
    /\ Len(TurnRecords(rid)) = 1
    /\ TurnRecords(rid)[1].stage = stage

\* What the turn did is what the decision names; the protocol-line call of
\* fallback-dsl is the third call of the turn
FollowsDecision(decision, rid, cs) ==
    IF decision = "schema-ok" THEN AcceptedAt(rid, cs, "structured-schema", 1)
    ELSE IF decision = "fail-no-fallback" THEN SchemaStageFailed(rid, cs)
    ELSE IF decision = "retry-json" THEN cs[2].fmt = "json" /\ AcceptedAt(rid, cs, "structured-json", 2)
    ELSE IF decision = "fail-strict"
    THEN /\ Len(cs) = 2
         /\ cs[2].fmt = "json"
         /\ TurnFailed(rid)
         /\ failure.stage = "structured-json"
         /\ TurnRecords(rid) = << >>
    ELSE /\ Len(cs) = 3
         /\ cs[2].fmt = "json"
         /\ cs[3].fmt = "none"
         /\ cs[3].prompt.kind = "dsl"

\* The same, the protocol-line call being issued only when its prompt
\* passes the length guard
FollowsDecisionWithinGuard(decision, rid, cs) ==
    IF decision = "fallback-dsl" /\ FallbackPromptLen(cs) > MAX_MESSAGE_CHARS
    THEN /\ Len(cs) = 2
         /\ cs[2].fmt = "json"
         /\ TurnFailed(rid)
         /\ failure = RelayError(<< "incoming message too large to relay" >>, 0, NoText, "None", "None")
         /\ TurnRecords(rid) = << >>
    ELSE FollowsDecision(decision, rid, cs)

\* The outcomes of the format=json attempt the turn is compared under: the
\* one it had, or either when the turn made no such attempt
JsonFailedCases(cs) == IF Len(cs) >= 2 THEN { ~StructOk(cs[2]) } ELSE BOOLEAN

\* The turns of a structured run with the schema stage on that made the
\* schema-constrained call and are over
SchemaTurns ==
    { rid \in 1..request_id :
        cfg.structured /\ cfg.use_schema /\ TurnEnded(rid) /\ TurnCalls(rid) # << >> }

\* C35 as stated: the structured step refines the pure decision function -
\* for every combination of (schema attempt fails, JSON attempt fails,
\* strict, fallback_enabled) with schema use on, the stages the step executes
\* and its outcome are those decide_structured_recovery names: schema-ok
\* accepted at the schema call, fail-no-fallback terminal after the schema
\* call only, retry-json accepted at the JSON call, fail-strict terminal
\* after the JSON call, fallback-dsl the protocol-line call issued.
StepRefinesDecision ==
    \A rid \in SchemaTurns :
      \A json_failed \in JsonFailedCases(TurnCalls(rid)) :
        FollowsDecision(decide_structured_recovery(SchemaFailed(TurnCalls(rid)), json_failed,
                                                   cfg.strict, cfg.fallback_enabled),
                        rid, TurnCalls(rid))

\* C35, amended: as above, except that under fallback-dsl the protocol-line
\* call is issued only when its prompt is no longer than MAX_MESSAGE_CHARS;
\* when it is longer the step ends in the message-too-large failure after
\* the JSON call.
StepRefinesDecisionWithinGuard ==
    \A rid \in SchemaTurns :
      \A json_failed \in JsonFailedCases(TurnCalls(rid)) :
        FollowsDecisionWithinGuard(decide_structured_recovery(SchemaFailed(TurnCalls(rid)), json_failed,
                                                              cfg.strict, cfg.fallback_enabled),
                                   rid, TurnCalls(rid))

\* A turn under fallback-dsl: both attempts failed, the protocol-line call
\* was made and its line refused, which ended the turn
FallbackDecisionFollowed ==
    \E rid \in SchemaTurns :
      /\ Len(TurnCalls(rid)) = 3
      /\ decide_structured_recovery(SchemaFailed(TurnCalls(rid)), ~StructOk(TurnCalls(rid)[2]),
                                    cfg.strict, cfg.fallback_enabled) = "fallback-dsl"
      /\ ~LineOk(TurnCalls(rid)[3])
      /\ TurnFailed(rid)

\* A turn under fallback-dsl whose protocol-line prompt was too long
FallbackDecisionRefused ==
    \E rid \in SchemaTurns :
      /\ Len(TurnCalls(rid)) = 2
      /\ decide_structured_recovery(SchemaFailed(TurnCalls(rid)), ~StructOk(TurnCalls(rid)[2]),
                                    cfg.strict, cfg.fallback_enabled) = "fallback-dsl"
      /\ FallbackPromptLen(TurnCalls(rid)) > MAX_MESSAGE_CHARS
      /\ TurnFailed(rid)

\* A step of a turn is waiting for a transport call to return
AwaitingCall == pc \in { "schema", "noschema", "json", "fallback", "dsl", "correct" }

\* The number of calls a turn has made when it waits at the stage
StageRank ==
    IF pc \in { "schema", "noschema", "dsl" } THEN 0
    ELSE IF pc \in { "json", "correct" } THEN 1
    ELSE 2

\* At most a schema-constrained call, a format=json call and a
\* protocol-line call, in that order
StructuredCallsInOrder(cs) ==
    /\ Len(cs) <= 3
    /\ Len(cs) >= 1 => cs[1].fmt \in { "schema-strict", "schema-permissive" } /\ cs[1].prompt.kind = "structured"
    /\ Len(cs) >= 2 => cs[2].fmt = "json" /\ cs[2].prompt.kind = "structured"
    /\ Len(cs) >= 3 => cs[3].fmt = "none" /\ cs[3].prompt.kind = "dsl"

\* At most a call and a correction call
PlainCallsInOrder(cs) ==
    /\ Len(cs) <= 2
    /\ Len(cs) >= 1 => cs[1].fmt = "none" /\ cs[1].prompt.kind = "dsl"
    /\ Len(cs) >= 2 => cs[2].fmt = "none" /\ cs[2].prompt.kind = "guard"

TwoPlainCallsMade ==
    /\ ~cfg.structured
    /\ \E rid \in 1..request_id : Len(TurnCalls(rid)) = 2 /\ TurnEnded(rid)

\* The text a turn sends on when it is accepted, from its transcript entry
OutgoingText(i) ==
    IF cfg.structured THEN JsonDumps(transcript[i].json) ELSE PlainText(transcript[i].dsl)

\* The text turn i receives: the start message, or what the turn before sent
IncomingText(i) ==
    IF i = 1
    THEN PlainText(IF cfg.start = << >> THEN DefaultStart ELSE cfg.start)
    ELSE OutgoingText(i - 1)

RECURSIVE ExchangesOf(_)
\* The user/assistant pairs of the first k accepted turns
ExchangesOf(k) ==
    IF k = 0 THEN << >>
    ELSE ExchangesOf(k - 1)
           \o << [ role |-> "user", content |-> IncomingText(k) ],
                 [ role |-> "assistant", content |-> OutgoingText(k) ] >>

\* What later turns read is made of the accepted turns alone
OnlyAcceptedKept ==
    pc # "init" /\ ~(pc = "failed" /\ request_id = 0)
    => /\ \A sp \in { "A", "B" } :
            histories[sp]
              = new_history(IF cfg.structured THEN "" ELSE "contract:dsl")
                  \o ExchangesOf(Len(transcript))
       /\ current = IncomingText(Len(transcript) + 1)
       /\ current_json = IncomingOf(Len(transcript) + 1)
       /\ Len(transcript) = (IF AwaitingCall \/ pc = "failed"
                             THEN request_id - 1 ELSE request_id)

\* C37: a turn that ends in failure changes nothing later turns read - from
\* the start of a turn, every step but the one that accepts the turn's record
\* (a call that failed, an attempt that is retried or corrected, the step that
\* raises) leaves both histories, the transcript and the current incoming
\* record as they are; and at every moment each history is its system entry
\* followed by one user/assistant pair per accepted turn, the incoming text
\* and the accepted outgoing text, so no prompt, invalid reply or correction
\* prompt of any attempt is in a history.
FailedTurnFrame ==
    /\ []OnlyAcceptedKept
    /\ [][ (pc = "loop" \/ AwaitingCall) /\ ~(AwaitingCall /\ pc' = "loop")
           => UNCHANGED << histories, transcript, current, current_json >> ]_vars

\* A turn failed after a turn was accepted and after an attempt of its own
\* was answered
FailedAfterAttempts ==
    /\ pc = "failed"
    /\ request_id = 2
    /\ Len(transcript) = 1
    /\ Len(TurnCalls(2)) >= 2
    /\ \A sp \in { "A", "B" } : Len(histories[sp]) >= 2

\* A plain turn failed after its correction call
FailedAfterCorrection ==
    /\ pc = "failed"
    /\ ~cfg.structured
    /\ \E i \in 1..Len(calls) : calls[i].rid = request_id /\ calls[i].prompt.kind = "guard"

\* The registry is enforced: structured mode with unknown operations and
\* unknown targets disallowed
RegistryEnforced == cfg.structured /\ ~cfg.allow_unknown_op /\ ~cfg.allow_unknown_target

\* The four fields of a canonical record
CanonicalRecord(payload) ==
    /\ payload.op \in CANONICAL_OPS
    /\ payload.target \in CANONICAL_TARGETS
    /\ payload.count \in Int
    /\ payload.count >= 1
    /\ \A key \in DOMAIN payload.params :
         payload.params[key].t \in { "str", "int", "bool", "float", "null", "dict" }

\* The accepted records of the stage
AcceptedBy(stages) == { i \in 1..Len(records) : records[i].stage \in stages }

\* C38: in structured mode with unknown operations and unknown targets
\* disallowed, every record a turn accepts, at whichever stage
\* (structured-schema, structured-json or fallback-dsl), has an operation of
\* the canonical set, a target of the canonical set, an integer count of at
\* least 1 and a parameter map.
AcceptedRecordsCanonical ==
    RegistryEnforced
    => \A i \in AcceptedBy({ "structured-schema", "structured-json", "fallback-dsl" }) :
         /\ CanonicalRecord(records[i].parsed)
         /\ CanonicalRecord(transcript[i].json)

\* The same of the records the two structured stages accept
StructuredStagesCanonical ==
    RegistryEnforced
    => \A i \in AcceptedBy({ "structured-schema", "structured-json" }) :
         /\ CanonicalRecord(records[i].parsed)
         /\ CanonicalRecord(transcript[i].json)

\* A turn accepted at fallback-dsl a line whose target is outside the registry
FallbackAcceptedUnknownTarget ==
    /\ RegistryEnforced
    /\ \E i \in AcceptedBy({ "fallback-dsl" }) : records[i].parsed.target \notin CANONICAL_TARGETS

\* Records were accepted at a structured stage and at fallback-dsl with the
\* registry enforced
AcceptedAtBothKinds ==
    /\ RegistryEnforced
    /\ AcceptedBy({ "structured-schema", "structured-json" }) # {}
    /\ AcceptedBy({ "fallback-dsl" }) # {}

====
